---------------------------- MODULE Spec2Model ----------------------------
(***************************************************************************)
(* Model of the idealista_scraper fetch orchestration engine:              *)
(*   export.py        normalize_listing_link, _safe_str, CSV resume        *)
(*   fetcher.py       fetch_html_with_retry, is_blocked_page               *)
(*   parsers.py       parse_search_page, looks_like_listing_page           *)
(*   orchestrator.py  _run_with_fetcher                                    *)
(*   cli.py           _main (incremental CSV with resume)                  *)
(*                                                                         *)
(* Strings are sequences of tokens.  A token is a piece of text that the   *)
(* code never looks inside: the host, a locale segment, the "/inmueble/"   *)
(* path marker, one decimal digit, a slash, other text, a blank, a line    *)
(* break.                                                                  *)
(***************************************************************************)
EXTENDS Integers, Sequences, FiniteSets, TLC

VARIABLES
    \* ---- arguments of run() / _run_with_fetcher
    fetch_details, max_pages, already_seen,
    \* ---- locals of _run_with_fetcher
    pc, all_cards, total_count, total_pages, start_page, first_page_first_link,
    results, processed_links, queue, page_num, consecutive_blocked,
    \* ---- run(): the browser sessions of the driver-based path
    backend,      \* "driver": run() made a driver and passes a restart
                  \* callback; "page": the Playwright path, no callback
    sessions,     \* the driver sessions of this run, in order of creation:
                  \* attached to CHROME_CDP_URL or not, quit() called or not
    driver,       \* run()'s variable driver: an index of sessions, 0 for None
    attached,     \* run()'s variable attached
    fk_driver,    \* fetch_kwargs["driver"]
    used,         \* for each call in fetched, the session it was given
    restarts,     \* the calls of restart_browser_sync so far
    run_pc,       \* "running" inside run()'s try statement, "ended" after it
    \* ---- what the run does to its environment
    site,         \* what the site serves during the run: the results a
                  \* fetch of page 1, of a later search page and of a
                  \* detail page may end with
    page_log,     \* the loop steps of lines 160-215 so far: page number and
                  \* how the step ended
    exc,          \* the exception that left the run ("none" while running)
    emitted,      \* the records passed to on_record, in call order
    fetched,      \* the calls of fetch_html_with_retry made by the run
    slept,        \* the waits before the retry of a blocked page so far
    last,         \* the outcome of the most recent fetch_html_with_retry call
    \* ---- cli.py: the CSV file and the number of CLI runs started
    csv, runs,
    \* ---- fetch_html_with_retry (fetcher.py), one call
    rt_pc, max_retries, backoff_sec, attempt, last_result,
    attempts,     \* outcome of each fetch_html call made so far
    sleeps,       \* the asyncio.sleep durations so far
    rt_return,    \* the returned pair, or the exception raised
    \* ---- _fetch_html_selenium_sync (fetcher.py) called by several threads
    \* ---- with one shared driver
    driver_lock,  \* whether the callers pass a lock (driver_lock is not None)
    lock_owner,   \* the thread that holds the lock, 0 for none
    th_pc,        \* for each thread, the statement it is at
    calls,        \* for each thread, the calls it has made
    \* ---- config.py, and the functions that are called on their own
    config,       \* SCRAPER_APPROACH, USE_SELENIUM and CHROME_CDP_URL
    pure_calls    \* the calls made so far: function, argument, value returned

sess_vars == <<backend, sessions, driver, attached, fk_driver, restarts, run_pc>>
sess_rest == <<backend, sessions, driver, attached, restarts, run_pc>>
orch_vars == <<fetch_details, max_pages, already_seen, site, page_log, pc, all_cards,
               total_count, sess_vars, used,
               total_pages, start_page, first_page_first_link, results,
               processed_links, queue, page_num, consecutive_blocked, exc,
               emitted, fetched, slept, last, csv, runs>>
retry_vars == <<rt_pc, max_retries, backoff_sec, attempt, last_result,
                attempts, sleeps, rt_return>>
fetch_vars == <<driver_lock, lock_owner, th_pc, calls>>
pure_vars == <<config, pure_calls>>
vars == <<orch_vars, retry_vars, fetch_vars, pure_vars>>

-----------------------------------------------------------------------------
(* Bounds of the model *)

\* largest max_pages argument a run is started with
MaxPagesArg == 3
\* largest max_pages argument of a run against the plain site
MaxDeepPages == 5
\* largest max_pages argument of a run on the driver-based path
MaxSessionPages == 3
\* threads that call _fetch_html_selenium_sync, and calls made by each
NumThreads == 2
MaxCalls == 2
\* largest max_retries argument fetch_html_with_retry is called with
MaxRetriesArg == 3
\* CLI runs on the same CSV file
MaxRuns == 2

(* Program constants *)
IDEALISTA_MAX_PAGE == 60
PAGE_SIZE == 30
LONG_OK_LEN == 12000
MIN_HTML_LEN == 500
CONSECUTIVE_BLOCKED_BEFORE_STOP == 2
PAGE_BLOCK_RETRY_BACKOFF_SEC == 60
DEFAULT_MAX_RETRIES == 3

-----------------------------------------------------------------------------
(* Text *)

DOM == "https://www.idealista.com"
INM == "/inmueble/"
SP  == " "
NL  == "\n"
Digits == {"0", "1", "2", "3", "4", "5", "6", "7", "8", "9"}
Whitespace == {SP, NL}
\* tokens whose lower-cased text contains "idealista"
IdealistaTokens == {DOM, "https://WWW.IDEALISTA.COM"}

\* Python's None, where a string is expected
None == "None"

\* str.lower() of one token: the tokens of the model that hold a capital
\* letter, every other token is its own lower case
lower(s) ==
    CASE s = "SELENIUM" -> "selenium"
      [] s = "Undetected" -> "undetected"
      [] s = "Playwright_CDP" -> "playwright_cdp"
      [] s = "Please" -> "please"
      [] s = "JS" -> "js"
      [] s = "JavaScript" -> "javascript"
      [] s = "DataDome" -> "datadome"
      [] s = "CAPTCHA" -> "captcha"
      [] s = "Challenge" -> "challenge"
      [] s = "El" -> "el"
      [] s = "Current browser version is " -> "current browser version is "
      [] s = "This version of ChromeDriver only supports Chrome version "
            -> "this version of chromedriver only supports chrome version "
      [] OTHER -> s
\* str.lower() of a text
LowerText(s) == [i \in 1..Len(s) |-> lower(s[i])]

\* "sub in text": sub occurs in text as a run of tokens
Contains(text, sub) ==
    \E i \in 0..(Len(text) - Len(sub)) : SubSeq(text, i + 1, i + Len(sub)) = sub

Min(a, b) == IF a <= b THEN a ELSE b
Max(a, b) == IF a >= b THEN a ELSE b
\* math.ceil(a / b) for a >= 0, b > 0
Ceil(a, b) == (a + b - 1) \div b

\* str.strip(): leading and trailing whitespace removed
RECURSIVE lstrip(_)
lstrip(s) == IF s # <<>> /\ Head(s) \in Whitespace THEN lstrip(Tail(s)) ELSE s
RECURSIVE rstrip(_)
rstrip(s) ==
    IF s # <<>> /\ s[Len(s)] \in Whitespace
    THEN rstrip(SubSeq(s, 1, Len(s) - 1)) ELSE s
strip(s) == rstrip(lstrip(s))

\* the longest run of digits of s that starts at position i
RECURSIVE DigitRun(_, _)
DigitRun(s, i) ==
    IF i <= Len(s) /\ s[i] \in Digits
    THEN <<s[i]>> \o DigitRun(s, i + 1) ELSE <<>>

\* re.search(r"/inmueble/(\d+)/?", url): positions of "/inmueble/" directly
\* followed by a digit; the search takes the leftmost
MatchPositions(url) ==
    {i \in 1..Len(url) : url[i] = INM /\ i + 1 <= Len(url) /\ url[i + 1] \in Digits}

CANONICAL_LISTING_URL == <<DOM, INM>>

normalize_listing_link(url) ==
    IF \/ url = <<>>
       \/ ~ \E i \in 1..Len(url) : url[i] \in IdealistaTokens
       \/ ~ \E i \in 1..Len(url) : url[i] = INM
    THEN strip(url)
    ELSE IF MatchPositions(url) # {}
         THEN LET i == CHOOSE k \in MatchPositions(url) :
                           \A j \in MatchPositions(url) : k <= j
              IN  CANONICAL_LISTING_URL \o DigitRun(url, i + 1) \o <<"/">>
         ELSE strip(url)

\* re.sub(r"[\r\n]+", " ", s): every run of line breaks becomes one blank
RECURSIVE CollapseBreaks(_)
CollapseBreaks(s) ==
    IF s = <<>> THEN <<>>
    ELSE IF Head(s) = NL
         THEN IF Len(s) >= 2 /\ s[2] = NL
              THEN CollapseBreaks(Tail(s))
              ELSE <<SP>> \o CollapseBreaks(Tail(s))
         ELSE <<Head(s)>> \o CollapseBreaks(Tail(s))

_safe_str(v) == CollapseBreaks(strip(v))


-----------------------------------------------------------------------------
(* Inputs: listing links, pages, fetch results *)

LinkA   == <<DOM, INM, "1", "/">>
LinkAen == <<DOM, "/en", INM, "1", "/">>
LinkB   == <<DOM, "/ca", INM, "2", "3", "/", "x">>
\* a listing link without a numeric id whose text holds a line break
LinkN   == <<DOM, INM, "x", NL, "y">>

Card(l) == [link |-> l]

\* int | None: no number
NoNumber == -1
\* a card with the fields that a detail page can override
RichCard(l, r, m, loc) ==
    [link |-> l, rooms |-> r, sq_meters |-> m, location |-> loc]
HasFields(card) == "rooms" \in DOMAIN card

\* the card lists a search page may parse to
CardLists ==
    { <<Card(LinkA), Card(LinkAen)>>, <<Card(LinkAen), Card(LinkB)>>,
      <<Card(LinkB), Card(LinkN)>>, <<Card(LinkN), Card(LinkA)>> }

\* A page's markup is kept as what the code reads from it: its length,
\* whether it contains one of the block phrases, what parse_search_page
\* extracts, the two fallbacks of looks_like_listing_page, and the rooms, the
\* area and the location that parse_detail_page extracts.
Html(n, phrase, total, cards, inm, cont) ==
    [len |-> n, phrase |-> phrase, total |-> total, cards |-> cards,
     inmueble |-> inm, container |-> cont,
     d_rooms |-> NoNumber, d_sq_meters |-> NoNumber, d_location |-> ""]

\* the markup of a detail page
DetailHtml(n, phrase, r, m, loc) ==
    [Html(n, phrase, 0, <<>>, TRUE, FALSE)
        EXCEPT !.d_rooms = r, !.d_sq_meters = m, !.d_location = loc]

EmptyHtml == Html(0, FALSE, 0, <<>>, FALSE, FALSE)

ListingHtmls ==
    { Html(15000, FALSE, t, cs, TRUE, TRUE) : t \in {12, 31}, cs \in CardLists }

OtherHtmls ==
    { Html(300, TRUE, 0, <<>>, FALSE, FALSE),      \* short block page
      Html(13000, TRUE, 0, <<>>, FALSE, FALSE),    \* long page with a block phrase
      Html(600, FALSE, 0, <<>>, FALSE, FALSE),     \* no cards, no phrase
      Html(600, TRUE, 0, <<>>, TRUE, FALSE) }      \* phrase and listing links, no cards

\* what fetch_html_with_retry may hand back for a search page
SearchResults ==
    { <<EmptyHtml, 0>>, <<Html(300, TRUE, 0, <<>>, FALSE, FALSE), 403>>,
      <<Html(700, FALSE, 0, <<>>, TRUE, FALSE), 503>> }
    \cup { <<h, 200>> : h \in ListingHtmls \cup OtherHtmls }

\* ... and for a search page after page 1, which is read for its status,
\* its cards and is_blocked_page only (lines 171-192; the total is dropped):
\* one failure, each list of cards once, two block pages and the empty page
LaterSearchResults ==
    { r \in SearchResults :
        r[2] \in {0, 200} /\ r[1].total # 31 /\ r[1].len # 13000 }

\* ... and for a detail page (its markup is not inspected by the run)
DetailResults ==
    { <<EmptyHtml, 0>>,
      <<Html(15000, FALSE, 0, <<>>, TRUE, FALSE), 200>>,
      <<Html(300, TRUE, 0, <<>>, FALSE, FALSE), 200>> }

\* the site of a run: everything above, or a plain site that serves one
\* listing page, one empty page, one block page and one failure
PlainSearchResults ==
    { <<EmptyHtml, 0>>,
      <<Html(300, TRUE, 0, <<>>, FALSE, FALSE), 200>>,
      <<Html(600, FALSE, 0, <<>>, FALSE, FALSE), 200>>,
      <<Html(15000, FALSE, 31, <<Card(LinkA)>>, TRUE, TRUE), 200>>,
      <<Html(15000, FALSE, 31, <<Card(LinkB)>>, TRUE, TRUE), 200>> }
PlainDetailResults == { <<EmptyHtml, 0>> }
\* a site that reports a total on every page and shows no card
BareTotals == {12, 30, 31, 1234, 1801}
BareSearchResults ==
    { <<Html(15000, FALSE, t, <<>>, TRUE, TRUE), 200>> : t \in BareTotals }
BareSite == [search |-> BareSearchResults, later |-> BareSearchResults,
             detail |-> {}]
FullSite == [search |-> SearchResults, later |-> LaterSearchResults,
             detail |-> DetailResults]
PlainSite == [search |-> PlainSearchResults, later |-> PlainSearchResults,
              detail |-> PlainDetailResults]

\* the plain site, which also serves a long page with a block phrase and a
\* short page with a block phrase and listing links, both without cards
DetectSearchResults ==
    PlainSearchResults
        \cup { <<Html(13000, TRUE, 0, <<>>, FALSE, FALSE), 200>>,
               <<Html(600, TRUE, 0, <<>>, TRUE, FALSE), 200>> }
DetectSite == [search |-> DetectSearchResults, later |-> DetectSearchResults,
               detail |-> PlainDetailResults]

DigitStr == <<"0", "1", "2", "3", "4", "5", "6", "7", "8", "9">>
\* n canonical links of listings that no page of the model shows
FillerLink(k) ==
    CANONICAL_LISTING_URL
        \o <<"9", DigitStr[(k \div 100) + 1], DigitStr[((k \div 10) % 10) + 1],
              DigitStr[(k % 10) + 1], "/">>
Filler(n) == { FillerLink(k) : k \in 0..(n - 1) }
FillerCsv(n) == [k \in 1..n |-> [link |-> FillerLink(k - 1)]]

\* a site whose cards carry rooms, area and location, and whose detail pages
\* come back failed, complete, partial or as a block page, with or without
\* something to extract
RichListings ==
    { <<RichCard(LinkAen, 2, 70, "Macarena"), RichCard(LinkB, NoNumber, NoNumber, "")>>,
      <<RichCard(LinkA, 4, 120, "Nervion")>> }
RichSearchResults ==
    { <<EmptyHtml, 0>> }
        \cup { <<Html(15000, FALSE, 31, cs, TRUE, TRUE), 200>> : cs \in RichListings }
RichDetailResults ==
    { <<EmptyHtml, 0>>,
      <<DetailHtml(300, TRUE, NoNumber, NoNumber, ""), 404>>,
      <<DetailHtml(15000, FALSE, 3, 80, "Triana"), 200>>,
      <<DetailHtml(15000, FALSE, NoNumber, 95, ""), 200>>,
      <<DetailHtml(300, TRUE, NoNumber, NoNumber, ""), 200>>,
      <<DetailHtml(300, TRUE, 0, NoNumber, "Centro"), 200>> }
RichSite == [search |-> RichSearchResults, later |-> RichSearchResults,
             detail |-> RichDetailResults]

\* the SeenLinks sets a run is started with
SeenChoices ==
    { {}, {normalize_listing_link(LinkA)}, {LinkAen},
      {normalize_listing_link(LinkB)} \cup Filler(PAGE_SIZE),
      Filler(2 * PAGE_SIZE) }

-----------------------------------------------------------------------------
(* fetcher.py, parsers.py: the classifiers *)

is_blocked_page(html) ==
    html.len = 0 \/ html.len < MIN_HTML_LEN \/ html.phrase

parse_search_page(html) == <<html.total, html.cards>>

looks_like_listing_page(html) ==
    \/ parse_search_page(html)[1] > 0
    \/ Len(parse_search_page(html)[2]) > 0
    \/ html.inmueble
    \/ html.len > 5000 /\ html.container

-----------------------------------------------------------------------------
(* orchestrator.py: _run_with_fetcher *)

NoLink == <<>>

\* _dedupe_unique(cards): loop state (seen_links, out) threaded through
\* (variant: a link is not remembered once kept)
RECURSIVE dedupe_keep_repeats(_, _, _)
dedupe_keep_repeats(cards, seen_links, seen) ==
    IF cards = <<>> THEN <<>>
    ELSE LET c == Head(cards)
             canonical == IF c.link # <<>> THEN normalize_listing_link(c.link) ELSE <<>>
         IN  IF canonical = <<>> \/ canonical \in seen
             THEN dedupe_keep_repeats(Tail(cards), seen_links, seen)
             ELSE <<c>> \o dedupe_keep_repeats(Tail(cards), seen_links, seen)
RECURSIVE DedupeFrom(_, _, _)
DedupeFrom(cards, seen_links, seen) ==
    IF cards = <<>> THEN <<>>
    ELSE LET c == Head(cards)
             canonical == IF c.link # <<>> THEN normalize_listing_link(c.link) ELSE <<>>
         IN  IF canonical = <<>> \/ canonical \in seen \/ canonical \in seen_links
             THEN DedupeFrom(Tail(cards), seen_links, seen)
             ELSE <<c>> \o DedupeFrom(Tail(cards), seen_links \cup {canonical}, seen)

\* (variant: already_seen is not consulted)
dedupe_ignoring_seen(cards) == DedupeFrom(cards, {}, {})
_dedupe_unique(cards) == DedupeFrom(cards, {}, already_seen)

\* lines 79-80, 87-96: the resume test and _dedupe_unique only read
\* already_seen; the links _dedupe_unique keeps go to its local seen_links
\* (variant: the links kept are added to already_seen as well)
seen_gets_kept_links(cards) ==
    already_seen' = already_seen \cup
        {normalize_listing_link(_dedupe_unique(cards)[i].link) :
            i \in 1..Len(_dedupe_unique(cards))}
SeenAfterDedupe(cards) == already_seen' = already_seen

\* [c for c in unique_so_far if normalize_listing_link(c.link) not in processed_links]
ToProcess(cards, processed) ==
    SelectSeq(_dedupe_unique(cards),
              LAMBDA c : normalize_listing_link(c.link) \notin processed)

PageFetch(n) == [kind |-> "page", page |-> n, url |-> NoLink]
DetailFetch(u) == [kind |-> "detail", page |-> 0, url |-> u]
Outcome(f, html, status) == [fetch |-> f, html |-> html, status |-> status]

\* the records of the result list
\* parsers.py 338-481: what the run uses of the DetailListing
parse_detail_page(html) ==
    [rooms |-> html.d_rooms, sq_meters |-> html.d_sq_meters,
     location |-> html.d_location]
NoDetail == [rooms |-> NoNumber, sq_meters |-> NoNumber, location |-> ""]

\* {**card.to_dict(), "link": canonical_link}
CardRecord(card) ==
    IF HasFields(card)
    THEN [link |-> normalize_listing_link(card.link), detail |-> FALSE,
          parsed |-> NoDetail, rooms |-> card.rooms,
          sq_meters |-> card.sq_meters, location |-> card.location]
    ELSE [link |-> normalize_listing_link(card.link), detail |-> FALSE]
\* (variant: the card's own values are kept when it has them)
merged_card_first(card, d) ==
    IF HasFields(card)
    THEN [link |-> normalize_listing_link(card.link), detail |-> TRUE,
          parsed |-> d,
          rooms |-> IF card.rooms # NoNumber THEN card.rooms ELSE d.rooms,
          sq_meters |-> IF card.sq_meters # NoNumber THEN card.sq_meters
                                                     ELSE d.sq_meters,
          location |-> IF card.location # "" THEN card.location ELSE d.location]
    ELSE [link |-> normalize_listing_link(card.link), detail |-> TRUE]
\* lines 120-134: merged, with the detail's rooms, sq_meters and location
\* written over the card's when the detail has them
MergedRecord(card, d) ==
    IF HasFields(card)
    THEN [link |-> normalize_listing_link(card.link), detail |-> TRUE,
          parsed |-> d,
          rooms |-> IF d.rooms # NoNumber THEN d.rooms ELSE card.rooms,
          sq_meters |-> IF d.sq_meters # NoNumber THEN d.sq_meters
                                                  ELSE card.sq_meters,
          location |-> IF d.location # "" THEN d.location ELSE card.location]
    ELSE [link |-> normalize_listing_link(card.link), detail |-> TRUE]

\* (variant: the status is not tested)
first_page_blocked_by_markup(html, status) ==
    LET long_ok == status = 200 /\ html.len >= LONG_OK_LEN
    IN  ~long_ok /\ is_blocked_page(html) /\ ~looks_like_listing_page(html)
first_page_blocked(html, status) ==
    LET long_ok == status = 200 /\ html.len >= LONG_OK_LEN
    IN  \/ status # 200
        \/ ~long_ok /\ is_blocked_page(html) /\ ~looks_like_listing_page(html)

\* (variant: the quotient is rounded down)
total_pages_rounded_down(total, maxp) ==
    IF total > PAGE_SIZE
    THEN Min(Min(IDEALISTA_MAX_PAGE, Max(1, total \div PAGE_SIZE)), maxp)
    ELSE Min(IDEALISTA_MAX_PAGE, maxp)
TotalPages(total, maxp) ==
    IF total > PAGE_SIZE
    THEN Min(Min(IDEALISTA_MAX_PAGE, Max(1, Ceil(total, PAGE_SIZE))), maxp)
    ELSE Min(IDEALISTA_MAX_PAGE, maxp)

\* (variant: the start page is not limited to the total page count)
start_page_unclamped(seen, tp) ==
    IF seen # {} /\ tp > 1
    THEN (Cardinality(seen) \div PAGE_SIZE) + 1
    ELSE 1
StartPage(seen, tp) ==
    IF seen # {} /\ tp > 1
    THEN Min(tp, (Cardinality(seen) \div PAGE_SIZE) + 1)
    ELSE 1


\* export.py: the CSV row of a record (the link column is what resume reads)
_flatten_for_csv(record) == [link |-> _safe_str(record.link)]
append_csv_row(record, file) == Append(file, _flatten_for_csv(record))

\* export.py: get_existing_links_from_csv
get_existing_links_from_csv(file) ==
    { normalize_listing_link(strip(file[i].link)) :
        i \in {k \in 1..Len(file) : strip(file[k].link) # <<>>} }

\* (variant: the record is handed to the callback and not kept)
emit_without_append(d, ok) ==
    /\ emitted' = Append(emitted, d)
    /\ csv' = IF ok THEN append_csv_row(d, csv) ELSE csv
    /\ results' = results
    /\ exc' = IF ok THEN exc ELSE "OnRecordError"
\* "if on_record: on_record(d)" then "results.append(d)".  The callback is
\* the CLI's on_record (cli.py 106-115): it appends the row to the CSV, or
\* raises before writing it; the run is modelled with a callback supplied.
Emit(d, ok) ==
    /\ emitted' = Append(emitted, d)
    /\ csv' = IF ok THEN append_csv_row(d, csv) ELSE csv
    /\ results' = IF ok THEN Append(results, d) ELSE results
    /\ exc' = IF ok THEN exc ELSE "OnRecordError"

\* after the cards q of page p are handed to _process_cards: the next
\* statement is the first card's, or the loop's next iteration
EnterCards(q, p) ==
    /\ queue' = q
    /\ pc' = IF q = <<>> THEN "page_loop" ELSE "process_cards"
    /\ page_num' = IF q = <<>> THEN p + 1 ELSE p

\* fetcher.py 367-372: fetch_html pops "driver" and the other entries from
\* its own copy of the keyword arguments; the entry of the caller's
\* fetch_kwargs after a fetch
\* (variant: the entry is popped from the caller's mapping)
popped_from_caller(fk) == 0
KwargsAfterFetch(fk) == fk

\* the call is given fetch_kwargs["driver"]
UseSession ==
    /\ used' = Append(used, fk_driver)
    /\ fk_driver' = KwargsAfterFetch(fk_driver)

\* lines 52-82 and 139-154: page 1
FirstPage ==
    /\ pc = "page1"
    /\ \E r \in site.search :
        LET html == r[1]
            status == r[2]
            parsed == parse_search_page(html)
            page_cards == parsed[2]
            tp == TotalPages(parsed[1], max_pages)
            sp == StartPage(already_seen, tp)
        IN  /\ fetched' = Append(fetched, PageFetch(1))
            /\ last' = Outcome(PageFetch(1), html, status)
            /\ IF first_page_blocked(html, status)
               THEN /\ pc' = "raised"
                    /\ exc' = "RuntimeError"
                    /\ UNCHANGED <<all_cards, total_count, total_pages,
                                   start_page, first_page_first_link, queue,
                                   page_num>>
               ELSE /\ all_cards' = page_cards
                    /\ total_count' = parsed[1]
                    /\ total_pages' = tp
                    /\ start_page' = sp
                    /\ first_page_first_link' =
                         IF page_cards # <<>> THEN page_cards[1].link ELSE NoLink
                    /\ exc' = exc
                    /\ IF ~fetch_details
                       THEN /\ queue' = _dedupe_unique(page_cards)
                            /\ pc' = "emit_cards"
                            /\ page_num' = page_num
                       ELSE EnterCards(IF sp <= 1
                                       THEN ToProcess(page_cards, processed_links)
                                       ELSE <<>>, 1)
    /\ SeenAfterDedupe(all_cards')
    /\ UNCHANGED <<fetch_details, max_pages, site, results,
                   processed_links, consecutive_blocked, emitted, csv, runs,
                   page_log>>
    /\ UseSession
    /\ UNCHANGED sess_rest
    /\ UNCHANGED slept
    /\ UNCHANGED <<retry_vars, fetch_vars, pure_vars>>

\* lines 139-146: fetch_details false, one card of unique_cards
EmitCard ==
    /\ pc = "emit_cards"
    /\ queue # <<>>
    /\ \E ok \in BOOLEAN :
        /\ Emit(CardRecord(Head(queue)), ok)
        /\ pc' = IF ok THEN pc ELSE "raised"
    /\ queue' = Tail(queue)
    /\ UNCHANGED <<fetch_details, max_pages, already_seen, site, all_cards,
                   total_count, total_pages, start_page, first_page_first_link,
                   processed_links, page_num, consecutive_blocked, fetched,
                   last, runs, page_log, sess_vars, used>>
    /\ UNCHANGED slept
    /\ UNCHANGED <<retry_vars, fetch_vars, pure_vars>>

\* line 103: processed_links.add(canonical_link)
\* (variant: the link is not added)
never_marked(links, canonical_link) == links
MarkProcessed(links, canonical_link) == links \cup {canonical_link}

\* lines 98-137: _process_cards, one card
ProcessCard ==
    /\ pc = "process_cards"
    /\ queue # <<>>
    /\ LET card == Head(queue)
           canonical_link == normalize_listing_link(card.link)
           fetch_url == IF canonical_link # <<>> THEN canonical_link ELSE card.link
       IN  IF canonical_link \in processed_links
           THEN /\ EnterCards(Tail(queue), page_num)
                /\ UNCHANGED <<processed_links, fetched, last, emitted, csv,
                               results, exc, used, fk_driver>>
           ELSE \E r \in site.detail, ok \in BOOLEAN :
                /\ processed_links' = MarkProcessed(processed_links, canonical_link)
                /\ fetched' = Append(fetched, DetailFetch(fetch_url))
                /\ UseSession
                /\ last' = Outcome(DetailFetch(fetch_url), r[1], r[2])
                /\ Emit(IF r[2] # 200
                        THEN CardRecord(card)
                        ELSE MergedRecord(card, parse_detail_page(r[1])), ok)
                /\ IF ok
                   THEN EnterCards(Tail(queue), page_num)
                   ELSE pc' = "raised" /\ queue' = queue /\ page_num' = page_num
    /\ UNCHANGED <<fetch_details, max_pages, already_seen, site, all_cards,
                   total_count, total_pages, start_page, first_page_first_link,
                   consecutive_blocked, runs, page_log, sess_rest>>
    /\ UNCHANGED slept
    /\ UNCHANGED <<retry_vars, fetch_vars, pure_vars>>

\* line 161: a page before the resume point
SkipPage ==
    /\ pc = "page_loop"
    /\ page_num <= total_pages
    /\ page_num < start_page
    /\ page_num' = page_num + 1
    /\ UNCHANGED <<fetch_details, max_pages, already_seen, site, pc, all_cards,
                   total_count, total_pages, start_page, first_page_first_link, results,
                   processed_links, queue, consecutive_blocked, exc, emitted,
                   fetched, last, csv, runs, page_log, sess_vars, used>>
    /\ UNCHANGED slept
    /\ UNCHANGED <<retry_vars, fetch_vars, pure_vars>>

\* "continue": the loop's next iteration
\* (variant: the loop is left instead)
continue_as_break ==
    /\ pc' = "done"
    /\ UNCHANGED <<all_cards, queue, page_num>>
Continue ==
    /\ pc' = "page_loop"
    /\ page_num' = page_num + 1
    /\ UNCHANGED <<all_cards, queue>>

\* "break", then line 218
Break ==
    /\ pc' = "done"
    /\ UNCHANGED <<all_cards, queue, page_num>>

\* how the loop step of page page_num ended: "failed" (lines 167-170,
\* 184-187), "blocked" (189-201), "empty" (202-204), "duplicate" (207-209),
\* "cards" (210-215)
LogPage(class) ==
    page_log' = Append(page_log, [page |-> page_num, class |-> class])

\* line 207: the page starts with the first link of page 1
\* (variant: no page is taken for a copy of page 1)
never_duplicate(page_cards) == FALSE
IsDuplicateOfFirst(page_cards) ==
    /\ first_page_first_link # NoLink
    /\ page_cards[1].link = first_page_first_link

\* lines 202-215: a page that was not handled as failed or blocked
AfterParse(page_cards) ==
    IF page_cards = <<>>
    THEN Continue /\ UNCHANGED consecutive_blocked /\ LogPage("empty")
    ELSE /\ consecutive_blocked' = 0
         /\ IF IsDuplicateOfFirst(page_cards)
            THEN Break /\ LogPage("duplicate")
            ELSE /\ LogPage("cards")
                 /\ all_cards' = all_cards \o page_cards
                 /\ EnterCards(ToProcess(all_cards \o page_cards, processed_links),
                               page_num)

\* lines 163-172: one page of the loop, up to the test for a block
FetchPage ==
    /\ pc = "page_loop"
    /\ page_num <= total_pages
    /\ page_num >= start_page
    /\ \E r \in site.later :
        LET html == r[1]
            status == r[2]
            page_cards == parse_search_page(html)[2]
        IN  /\ fetched' = Append(fetched, PageFetch(page_num))
            /\ last' = Outcome(PageFetch(page_num), html, status)
            /\ IF status # 200
               THEN Continue /\ consecutive_blocked' = 0 /\ LogPage("failed")
               ELSE IF page_cards = <<>> /\ is_blocked_page(html)
                    THEN /\ pc' = "page_retry"
                         /\ UNCHANGED <<all_cards, queue, page_num,
                                        consecutive_blocked, page_log>>
                    ELSE AfterParse(page_cards)
    /\ SeenAfterDedupe(all_cards')
    /\ UNCHANGED <<fetch_details, max_pages, site, total_count,
                   total_pages, start_page, first_page_first_link, results,
                   processed_links, exc, emitted, csv, runs>>
    /\ UseSession
    /\ UNCHANGED sess_rest
    /\ UNCHANGED slept
    /\ UNCHANGED <<retry_vars, fetch_vars, pure_vars>>

\* line 195: the counter has reached the threshold
\* (variant: the threshold is never reached)
never_stops_on_blocked(n) == FALSE
StopsOnBlocked(n) == n >= CONSECUTIVE_BLOCKED_BEFORE_STOP

\* driver.quit() has been called on session i
Quit(ss, i) == [ss EXCEPT ![i].quit = TRUE]

\* lines 335-349: _make_new_driver never attaches to CHROME_CDP_URL
NewSession == [attached |-> FALSE, quit |-> FALSE]

\* one call of restart_browser_sync, as _run_with_fetcher sees it through
\* lines 174-179: quit_raises is whether driver.quit() raises, created
\* whether _make_new_driver returns a driver
RestartRecord(quit_raises, created, new) ==
    [old |-> driver, quit_raised |-> quit_raises /\ driver # 0,
     created |-> created, new |-> new, next_fetch |-> Len(fetched) + 1]

\* (variant: an error of driver.quit() ends the restart)
restart_stopped_by_quit_error(quit_raises, created) ==
    LET stopped == quit_raises /\ driver # 0
        quitted == IF driver # 0 THEN Quit(sessions, driver) ELSE sessions
        made == created /\ ~stopped
        new == IF made THEN Len(sessions) + 1 ELSE 0
    IN  /\ sessions' = IF made THEN Append(quitted, NewSession) ELSE quitted
        /\ driver' = IF stopped THEN driver ELSE new
        /\ fk_driver' = IF made THEN new ELSE fk_driver
        /\ restarts' = Append(restarts, RestartRecord(quit_raises, created, new))
\* lines 351-360
restart_browser_sync(quit_raises, created) ==
    LET quitted == IF driver # 0 THEN Quit(sessions, driver) ELSE sessions
        new == IF created THEN Len(sessions) + 1 ELSE 0
    IN  /\ sessions' = IF created THEN Append(quitted, NewSession) ELSE quitted
        /\ driver' = new
        /\ fk_driver' = IF created THEN new ELSE fk_driver
        /\ restarts' = Append(restarts, RestartRecord(quit_raises, created, new))

\* line 182: the wait before the retry, after a restart that succeeded or
\* failed, or without one
\* (variant: no wait after a restart that failed)
wait_after_restart_only(restarted) ==
    IF restarted THEN <<PAGE_BLOCK_RETRY_BACKOFF_SEC>> ELSE <<>>
RetryWait(restarted) == <<PAGE_BLOCK_RETRY_BACKOFF_SEC>>

\* lines 173-201: the restart of the session (when run() passed the
\* callback), the wait and the one retry of a page that looked blocked
RetryPage ==
    /\ pc = "page_retry"
    /\ \E r \in site.later :
        LET html == r[1]
            status == r[2]
            page_cards == parse_search_page(html)[2]
        IN  /\ fetched' = Append(fetched, PageFetch(page_num))
            /\ last' = Outcome(PageFetch(page_num), html, status)
            /\ IF status # 200
               THEN Continue /\ consecutive_blocked' = 0 /\ LogPage("failed")
               ELSE IF page_cards = <<>> /\ is_blocked_page(html)
                    THEN /\ consecutive_blocked' = consecutive_blocked + 1
                         /\ LogPage("blocked")
                         /\ IF StopsOnBlocked(consecutive_blocked + 1)
                            THEN Break
                            ELSE Continue
                    ELSE AfterParse(page_cards)
    /\ SeenAfterDedupe(all_cards')
    /\ UNCHANGED <<fetch_details, max_pages, site, total_count,
                   total_pages, start_page, first_page_first_link, results,
                   processed_links, exc, emitted, csv, runs>>
    /\ IF backend = "driver"
       THEN \E quit_raises, created \in BOOLEAN :
               restart_browser_sync(quit_raises, created)
       ELSE UNCHANGED <<sessions, driver, fk_driver, restarts>>
    /\ used' = Append(used, fk_driver')
    /\ slept' = slept \o RetryWait(backend # "driver"
                                   \/ restarts'[Len(restarts')].created)
    /\ UNCHANGED <<backend, attached, run_pc>>
    /\ UNCHANGED <<retry_vars, fetch_vars, pure_vars>>

\* lines 146 and 217-218: return results
Return ==
    /\ \/ pc = "emit_cards" /\ queue = <<>>
       \/ pc = "page_loop" /\ page_num > total_pages
    /\ pc' = "done"
    /\ UNCHANGED <<fetch_details, max_pages, already_seen, site, all_cards,
                   total_count, total_pages, start_page, first_page_first_link, results,
                   processed_links, queue, page_num, consecutive_blocked, exc,
                   emitted, fetched, last, csv, runs, page_log, sess_vars, used>>
    /\ UNCHANGED slept
    /\ UNCHANGED <<retry_vars, fetch_vars, pure_vars>>

\* run(), lines 372-380: the finally clause of the driver-based path, after
\* _run_with_fetcher has returned or raised
Finally ==
    /\ run_pc = "running"
    /\ backend = "driver"
    /\ pc \in {"done", "raised"}
    /\ run_pc' = "ended"
    /\ IF ~attached /\ driver # 0
       THEN sessions' = Quit(sessions, driver) /\ driver' = 0
       ELSE UNCHANGED <<sessions, driver>>
    /\ UNCHANGED <<backend, attached, fk_driver, restarts, used>>
    /\ UNCHANGED <<fetch_details, max_pages, already_seen, site, pc, all_cards,
                   total_count, total_pages, start_page, first_page_first_link,
                   results, processed_links, queue, page_num,
                   consecutive_blocked, exc, emitted, fetched, last, csv, runs,
                   page_log>>
    /\ UNCHANGED slept
    /\ UNCHANGED <<retry_vars, fetch_vars, pure_vars>>

-----------------------------------------------------------------------------
(* fetcher.py: fetch_html_with_retry *)

DEFAULT_BACKOFF == <<10, 30, 60>>
\* the backoff_sec arguments of the model
Schedules == { <<>>, <<5>>, DEFAULT_BACKOFF }

BlockHtml == Html(300, TRUE, 0, <<>>, FALSE, FALSE)
ErrorHtml == Html(700, FALSE, 0, <<>>, FALSE, FALSE)
ListingHtml == Html(15000, FALSE, 12, <<Card(LinkA)>>, TRUE, TRUE)

\* what one call of fetch_html does: it raises, or returns (html, status)
Raised == [raised |-> TRUE, html |-> EmptyHtml, status |-> 0]
Returned(h, st) == [raised |-> FALSE, html |-> h, status |-> st]
FetchOutcomes ==
    { Raised, Returned(ListingHtml, 200), Returned(BlockHtml, 403),
      Returned(ErrorHtml, 503), Returned(BlockHtml, 0) }

\* lines 420-425: last_result after one call of fetch_html
\* (variant: an attempt that raises leaves last_result alone)
keep_last_observed(o, prev) ==
    IF o.raised THEN prev ELSE <<o.html, o.status>>
ResultOf(o, prev) ==
    IF o.raised THEN <<EmptyHtml, 0>> ELSE <<o.html, o.status>>

\* lines 422-423: the early return
\* (variant: without the early return)
never_returns_early(o) == FALSE
ReturnsEarly(o) == ~o.raised /\ o.status = 200

\* line 426: whether a sleep follows attempt number att (0-based)
\* (variant: a sleep follows the last attempt too)
backoff_after_last(att, maxr) == att < maxr
NeedsBackoff(att, maxr) == att < maxr - 1

\* line 427 for a schedule that is not empty
\* (variant: always the schedule's first element)
backoff_first(att, sched) == sched[1]
BackoffWait(att, sched) ==
    IF att < Len(sched) THEN sched[att + 1] ELSE sched[Len(sched)]

\* lines 419-425: the try statement of one iteration
RetryAttempt ==
    /\ rt_pc = "loop"
    /\ attempt < max_retries
    /\ \E o \in FetchOutcomes :
        /\ attempts' = Append(attempts, o)
        /\ last_result' = ResultOf(o, last_result)
        /\ IF ReturnsEarly(o)
           THEN /\ rt_pc' = "returned"
                /\ rt_return' = <<o.html, o.status>>
                /\ attempt' = attempt
           ELSE /\ rt_return' = rt_return
                /\ IF NeedsBackoff(attempt, max_retries)
                   THEN rt_pc' = "backoff" /\ attempt' = attempt
                   ELSE rt_pc' = "loop" /\ attempt' = attempt + 1
    /\ UNCHANGED <<max_retries, backoff_sec, sleeps>>
    /\ UNCHANGED <<orch_vars, fetch_vars, pure_vars>>

\* lines 426-428: the sleep between two attempts; backoff_sec[-1] of an
\* empty schedule raises IndexError, outside the try statement
RetryBackoff ==
    /\ rt_pc = "backoff"
    /\ IF backoff_sec = <<>>
       THEN /\ rt_pc' = "raised"
            /\ UNCHANGED <<sleeps, attempt>>
       ELSE /\ sleeps' = Append(sleeps, BackoffWait(attempt, backoff_sec))
            /\ rt_pc' = "loop"
            /\ attempt' = attempt + 1
    /\ UNCHANGED <<max_retries, backoff_sec, last_result, attempts, rt_return>>
    /\ UNCHANGED <<orch_vars, fetch_vars, pure_vars>>

\* line 429: return last_result
RetryExhausted ==
    /\ rt_pc = "loop"
    /\ attempt >= max_retries
    /\ rt_pc' = "returned"
    /\ rt_return' = last_result
    /\ UNCHANGED <<max_retries, backoff_sec, attempt, last_result, attempts, sleeps>>
    /\ UNCHANGED <<orch_vars, fetch_vars, pure_vars>>

\* no call of fetch_html_with_retry is being followed
RetryIdle ==
    /\ rt_pc = "idle"
    /\ max_retries = DEFAULT_MAX_RETRIES
    /\ backoff_sec = DEFAULT_BACKOFF
    /\ attempt = 0
    /\ last_result = <<EmptyHtml, 0>>
    /\ attempts = <<>>
    /\ sleeps = <<>>
    /\ rt_return = <<EmptyHtml, 0>>

-----------------------------------------------------------------------------
(* fetcher.py: _fetch_html_selenium_sync, called with a shared driver *)

Threads == 1..NumThreads

\* the statements of _do_fetch (lines 247-273), in order: the delay before
\* the request, the navigation, the cookie banner and the pause, the wait for
\* a listing link, the scroll, the reading of the page source
DoFetchSteps == <<"delay", "get", "interstitial", "wait", "scroll", "page_source">>
\* the statements that can raise (line 267 swallows the errors of the wait)
RaisingSteps == {"get", "interstitial", "scroll", "page_source"}

InDoFetch(t) == \E k \in 1..Len(DoFetchSteps) : th_pc[t] = DoFetchSteps[k]
StepIndex(t) == CHOOSE k \in 1..Len(DoFetchSteps) : th_pc[t] = DoFetchSteps[k]

\* line 276: the driver passed in is not None here, so the lock decides
\* (variant: the lock is not used)
lock_never_used == FALSE
UsesLock == driver_lock

\* leaving "with driver_lock:" (line 277), by return or by exception
Released(t, raised) ==
    IF UsesLock /\ lock_owner = t THEN 0 ELSE lock_owner

\* a thread calls _fetch_html_selenium_sync(driver, url, driver_lock = ...)
FetchCall(t) ==
    /\ th_pc[t] \in {"idle", "returned", "raised"}
    /\ calls[t] < MaxCalls
    /\ calls' = [calls EXCEPT ![t] = calls[t] + 1]
    /\ th_pc' = [th_pc EXCEPT ![t] = "entry"]
    /\ UNCHANGED <<driver_lock, lock_owner>>
    /\ UNCHANGED <<orch_vars, retry_vars, pure_vars>>

\* lines 276-279: enter _do_fetch, inside "with driver_lock:" when the lock
\* is used (the thread waits while another one holds it)
FetchEnter(t) ==
    /\ th_pc[t] = "entry"
    /\ IF UsesLock
       THEN lock_owner = 0 /\ lock_owner' = t
       ELSE lock_owner' = lock_owner
    /\ th_pc' = [th_pc EXCEPT ![t] = DoFetchSteps[1]]
    /\ UNCHANGED <<driver_lock, calls>>
    /\ UNCHANGED <<orch_vars, retry_vars, pure_vars>>

\* one statement of _do_fetch completes; after the last one the call returns
FetchStep(t) ==
    /\ InDoFetch(t)
    /\ IF StepIndex(t) < Len(DoFetchSteps)
       THEN /\ th_pc' = [th_pc EXCEPT ![t] = DoFetchSteps[StepIndex(t) + 1]]
            /\ lock_owner' = lock_owner
       ELSE /\ th_pc' = [th_pc EXCEPT ![t] = "returned"]
            /\ lock_owner' = Released(t, FALSE)
    /\ UNCHANGED <<driver_lock, calls>>
    /\ UNCHANGED <<orch_vars, retry_vars, pure_vars>>

\* one statement of _do_fetch raises: the exception leaves the call
FetchRaise(t) ==
    /\ InDoFetch(t)
    /\ th_pc[t] \in RaisingSteps
    /\ th_pc' = [th_pc EXCEPT ![t] = "raised"]
    /\ lock_owner' = Released(t, TRUE)
    /\ UNCHANGED <<driver_lock, calls>>
    /\ UNCHANGED <<orch_vars, retry_vars, pure_vars>>

\* no thread is calling _fetch_html_selenium_sync
FetchIdle ==
    /\ driver_lock = TRUE
    /\ lock_owner = 0
    /\ th_pc = [t \in Threads |-> "idle"]
    /\ calls = [t \in Threads |-> 0]

\* the configuration of an installation without a .env file (config.py
\* 36, 51, 58), and no function called on its own
PureIdle ==
    /\ config = [SCRAPER_APPROACH |-> None, USE_SELENIUM |-> FALSE,
                 CHROME_CDP_URL |-> None]
    /\ pure_calls = <<>>

\* the state of _run_with_fetcher at its first statement
RunStart(fd, mp, seen) ==
    /\ fetch_details = fd
    /\ max_pages = mp
    /\ already_seen = seen
    /\ pc = "page1"
    /\ all_cards = <<>>
    /\ total_count = 0
    /\ total_pages = 1
    /\ start_page = 1
    /\ first_page_first_link = NoLink
    /\ results = <<>>
    /\ processed_links = {}
    /\ queue = <<>>
    /\ page_num = 1
    /\ consecutive_blocked = 0
    /\ exc = "none"
    /\ emitted = <<>>
    /\ fetched = <<>>
    /\ slept = <<>>
    /\ last = Outcome(PageFetch(0), EmptyHtml, 0)
    /\ page_log = <<>>

\* run(), lines 239-333 (driver-based path: a driver was made, attached to
\* CHROME_CDP_URL or not) or lines 390-431 (Playwright path)
SessionStart(b, a) ==
    /\ backend = b
    /\ sessions = IF b = "driver" THEN <<[attached |-> a, quit |-> FALSE]>> ELSE <<>>
    /\ driver = IF b = "driver" THEN 1 ELSE 0
    /\ attached = (b = "driver" /\ a)
    /\ fk_driver = IF b = "driver" THEN 1 ELSE 0
    /\ used = <<>>
    /\ restarts = <<>>
    /\ run_pc = "running"

Init ==
    /\ \E fd \in BOOLEAN, mp \in 1..MaxPagesArg, seen \in SeenChoices :
          RunStart(fd, mp, seen)
    /\ SessionStart("page", FALSE)
    /\ site = FullSite
    /\ csv = <<>>
    /\ runs = 1
    /\ RetryIdle
    /\ FetchIdle
    /\ PureIdle

Next ==
    \/ FirstPage
    \/ EmitCard
    \/ ProcessCard
    \/ SkipPage
    \/ FetchPage
    \/ RetryPage
    \/ Return

Spec == Init /\ [][Next]_vars

-----------------------------------------------------------------------------
(* cli.py: runs of the CLI on one CSV file, resume enabled *)

\* lines 91-125 of _main: the process ends (at any point) and the CLI is
\* started again on the same file
CliRestart ==
    /\ runs < MaxRuns
    /\ runs' = runs + 1
    /\ csv' = csv
    /\ \E fd \in BOOLEAN, mp \in 1..MaxPagesArg :
          /\ fetch_details' = fd
          /\ max_pages' = mp
    /\ already_seen' = get_existing_links_from_csv(csv)
    /\ pc' = "page1"
    /\ all_cards' = <<>>
    /\ total_count' = 0
    /\ total_pages' = 1
    /\ start_page' = 1
    /\ first_page_first_link' = NoLink
    /\ results' = <<>>
    /\ processed_links' = {}
    /\ queue' = <<>>
    /\ page_num' = 1
    /\ consecutive_blocked' = 0
    /\ exc' = "none"
    /\ emitted' = <<>>
    /\ fetched' = <<>>
    /\ last' = Outcome(PageFetch(0), EmptyHtml, 0)
    /\ page_log' = <<>>
    /\ slept' = <<>>
    /\ site' = site
    /\ used' = <<>>
    /\ UNCHANGED sess_vars
    /\ UNCHANGED <<retry_vars, fetch_vars, pure_vars>>

\* the file does not exist yet, or holds the rows earlier runs wrote for
\* listings that no page of the model shows
CsvChoices == { <<>>, FillerCsv(2 * PAGE_SIZE) }

InitCli ==
    /\ csv \in CsvChoices
    /\ \E fd \in BOOLEAN, mp \in 1..MaxPagesArg :
          RunStart(fd, mp, get_existing_links_from_csv(csv))
    /\ SessionStart("page", FALSE)
    /\ site = FullSite
    /\ runs = 1
    /\ RetryIdle
    /\ FetchIdle
    /\ PureIdle

NextCli ==
    \/ FirstPage
    \/ EmitCard
    \/ ProcessCard
    \/ SkipPage
    \/ FetchPage
    \/ RetryPage
    \/ Return
    \/ CliRestart

SpecCli == InitCli /\ [][NextCli]_vars

-----------------------------------------------------------------------------
(* a run with detail fetches over more pages, against the plain site *)

InitPages ==
    /\ \E mp \in 1..MaxDeepPages : RunStart(TRUE, mp, {})
    /\ SessionStart("page", FALSE)
    /\ site = PlainSite
    /\ csv = <<>>
    /\ runs = 1
    /\ RetryIdle
    /\ FetchIdle
    /\ PureIdle

NextPages ==
    \/ FirstPage
    \/ ProcessCard
    \/ FetchPage
    \/ RetryPage
    \/ Return

SpecPages == InitPages /\ [][NextPages]_vars

-----------------------------------------------------------------------------
(* run() on the driver-based path: one run with its browser sessions *)

InitSession ==
    /\ \E fd \in BOOLEAN, mp \in 1..MaxSessionPages : RunStart(fd, mp, {})
    /\ \E a \in BOOLEAN : SessionStart("driver", a)
    /\ site = PlainSite
    /\ csv = <<>>
    /\ runs = 1
    /\ RetryIdle
    /\ FetchIdle
    /\ PureIdle

NextSession ==
    \/ FirstPage
    \/ EmitCard
    \/ ProcessCard
    \/ FetchPage
    \/ RetryPage
    \/ Return
    \/ Finally

SpecSession == InitSession /\ [][NextSession]_vars

-----------------------------------------------------------------------------
(* a run in which every fetch and every sleep completes *)

InitLive ==
    /\ \E fd \in BOOLEAN, mp \in 1..MaxSessionPages,
          seen \in {{}, Filler(2 * PAGE_SIZE)} : RunStart(fd, mp, seen)
    /\ SessionStart("page", FALSE)
    /\ site = PlainSite
    /\ csv = <<>>
    /\ runs = 1
    /\ RetryIdle
    /\ FetchIdle
    /\ PureIdle

NextLive ==
    \/ FirstPage
    \/ EmitCard
    \/ ProcessCard
    \/ SkipPage
    \/ FetchPage
    \/ RetryPage
    \/ Return

\* each await of the run completes, so the statement after it is executed
SpecLive == InitLive /\ [][NextLive]_vars /\ WF_vars(NextLive)

-----------------------------------------------------------------------------
(* a run with detail fetches against the site with rich cards *)

\* largest max_pages argument of such a run
MaxDetailPages == 2

InitDetail ==
    /\ \E mp \in 1..MaxDetailPages : RunStart(TRUE, mp, {})
    /\ SessionStart("page", FALSE)
    /\ site = RichSite
    /\ csv = <<>>
    /\ runs = 1
    /\ RetryIdle
    /\ FetchIdle
    /\ PureIdle

NextDetail ==
    \/ FirstPage
    \/ ProcessCard
    \/ FetchPage
    \/ Return

SpecDetail == InitDetail /\ [][NextDetail]_vars

-----------------------------------------------------------------------------
(* a run on either path against the site with doubtful pages *)

InitDetect ==
    /\ \E mp \in 1..MaxSessionPages : RunStart(TRUE, mp, {})
    /\ \E b \in {"driver", "page"} : SessionStart(b, FALSE)
    /\ site = DetectSite
    /\ csv = <<>>
    /\ runs = 1
    /\ RetryIdle
    /\ FetchIdle
    /\ PureIdle

NextDetect ==
    \/ FirstPage
    \/ ProcessCard
    \/ FetchPage
    \/ RetryPage
    \/ Return
    \/ Finally

SpecDetect == InitDetect /\ [][NextDetect]_vars

-----------------------------------------------------------------------------
(* runs over up to IDEALISTA_MAX_PAGE pages, against the bare site *)

\* the max_pages arguments and the sizes of the SeenLinks sets of these runs
LongMaxPages == {1, 2, 7, 8, 42, 43, 60, 61}
LongSeenSizes == {0, 1, 29, 30, 238}

InitLong ==
    /\ \E fd \in BOOLEAN, mp \in LongMaxPages, n \in LongSeenSizes :
          RunStart(fd, mp, Filler(n))
    /\ SessionStart("page", FALSE)
    /\ site = BareSite
    /\ csv = <<>>
    /\ runs = 1
    /\ RetryIdle
    /\ FetchIdle
    /\ PureIdle

NextLong ==
    \/ FirstPage
    \/ SkipPage
    \/ FetchPage
    \/ Return

SpecLong == InitLong /\ [][NextLong]_vars

-----------------------------------------------------------------------------
(* fetch_html_with_retry alone *)

\* the run is not part of this specification
RunIdle ==
    /\ RunStart(FALSE, 1, {})
    /\ SessionStart("page", FALSE)
    /\ site = FullSite
    /\ csv = <<>>
    /\ runs = 0

InitRetry ==
    /\ RunIdle
    /\ rt_pc = "loop"
    /\ max_retries \in 0..MaxRetriesArg
    /\ backoff_sec \in Schedules
    /\ attempt = 0
    /\ last_result = <<EmptyHtml, 0>>
    /\ attempts = <<>>
    /\ sleeps = <<>>
    /\ rt_return = <<EmptyHtml, 0>>
    /\ FetchIdle
    /\ PureIdle

NextRetry ==
    \/ RetryAttempt
    \/ RetryBackoff
    \/ RetryExhausted

SpecRetry == InitRetry /\ [][NextRetry]_vars

-----------------------------------------------------------------------------
(* _fetch_html_selenium_sync alone: threads that share one driver *)

InitFetch ==
    /\ RunIdle
    /\ RetryIdle
    /\ driver_lock \in BOOLEAN
    /\ lock_owner = 0
    /\ th_pc = [t \in Threads |-> "idle"]
    /\ calls = [t \in Threads |-> 0]
    /\ PureIdle

NextFetch ==
    \/ \E t \in Threads : FetchCall(t)
    \/ \E t \in Threads : FetchEnter(t)
    \/ \E t \in Threads : FetchStep(t)
    \/ \E t \in Threads : FetchRaise(t)

SpecFetch == InitFetch /\ [][NextFetch]_vars

-----------------------------------------------------------------------------
(* approaches.py: resolve_approach *)

\* calls of one function in a row
MaxPureCalls == 2

APPROACHES == <<"undetected", "selenium", "playwright", "playwright_cdp">>
InApproaches(s) == \E i \in 1..Len(APPROACHES) : APPROACHES[i] = s

\* the truth value of an Optional[str]
Truthy(s) == s # None /\ s # ""

\* (variant: USE_SELENIUM is looked at before SCRAPER_APPROACH)
resolve_approach_flag_first(override) ==
    IF Truthy(override) /\ InApproaches(lower(override))
    THEN lower(override)
    ELSE IF config.USE_SELENIUM
    THEN "selenium"
    ELSE IF Truthy(config.SCRAPER_APPROACH) /\ InApproaches(config.SCRAPER_APPROACH)
    THEN config.SCRAPER_APPROACH
    ELSE IF Truthy(config.CHROME_CDP_URL)
    THEN "playwright_cdp"
    ELSE "playwright"
\* lines 18-31
resolve_approach(override) ==
    IF Truthy(override) /\ InApproaches(lower(override))
    THEN lower(override)
    ELSE IF Truthy(config.SCRAPER_APPROACH) /\ InApproaches(config.SCRAPER_APPROACH)
    THEN config.SCRAPER_APPROACH
    ELSE IF config.USE_SELENIUM
    THEN "selenium"
    ELSE IF Truthy(config.CHROME_CDP_URL)
    THEN "playwright_cdp"
    ELSE "playwright"

\* the override arguments of the model: none, empty, an approach as listed
\* or in other letter case, with a blank before it, and another word
Overrides ==
    { "", "selenium", "SELENIUM", "Undetected", "playwright",
      "Playwright_CDP", " selenium", "firefox" }

\* what config.py leaves in SCRAPER_APPROACH (line 58: stripped and
\* lower-cased, None when empty) and in CHROME_CDP_URL (line 36)
Configs ==
    [SCRAPER_APPROACH : {None, "undetected", "selenium", "playwright",
                         "playwright_cdp", "firefox"},
     USE_SELENIUM : BOOLEAN,
     CHROME_CDP_URL : {None, "http://localhost:9222"}]

PureCall(f, x, y) == [fn |-> f, arg |-> x, ret |-> y]

\* resolve_approach(override)
ResolveApproach ==
    /\ Len(pure_calls) < MaxPureCalls
    /\ \E o \in Overrides :
          pure_calls' = Append(pure_calls,
                               PureCall("resolve_approach", o, resolve_approach(o)))
    /\ config' = config
    /\ UNCHANGED <<orch_vars, retry_vars, fetch_vars>>

\* resolve_approach(): the override is None
ResolveDefault ==
    /\ Len(pure_calls) < MaxPureCalls
    /\ pure_calls' = Append(pure_calls,
                            PureCall("resolve_approach", None, resolve_approach(None)))
    /\ config' = config
    /\ UNCHANGED <<orch_vars, retry_vars, fetch_vars>>

\* neither a run nor a fetch is part of the specifications below
AllIdle ==
    /\ RunIdle
    /\ RetryIdle
    /\ FetchIdle

InitApproach ==
    /\ AllIdle
    /\ config \in Configs
    /\ pure_calls = <<>>

NextApproach ==
    \/ ResolveApproach
    \/ ResolveDefault

SpecApproach == InitApproach /\ [][NextApproach]_vars

-----------------------------------------------------------------------------
(* fetcher.py: is_blocked_page, on the markup itself *)

\* one token for a run of "x" characters, for the total-count header and for
\* the listing container
X100 == "x*100"
X499 == "x*499"
X500 == "x*500"
X1000 == "x*1000"
H1 == "<h1 id='h1-container'>Venta de viviendas: 500</h1>"
ITEMS == "<section class='items-list'>"

\* the number of characters of a token
Chars(t) ==
    CASE t = X100 -> 100
      [] t = X499 -> 499
      [] t = X500 -> 500
      [] t = X1000 -> 1000
      [] t = H1 -> 50
      [] t = ITEMS -> 28
      [] t = SP -> 1
      [] t = "Please" -> 6
      [] t = "enable" -> 6
      [] t = "JS" -> 2
      [] t = "JavaScript" -> 10
      [] t = "DataDome" -> 8
      [] t = "CAPTCHA" -> 7
      [] t = "Challenge" -> 9
      [] t = "El" -> 2
      [] t = "and" -> 3
      [] t = "something" -> 9
      [] t = "block" -> 5
      [] t = "required" -> 8
      [] t = "challenge" -> 9
      [] t = "security" -> 8
      [] t = "accepted" -> 8
      [] t = "acceso" -> 6
      [] t = "se" -> 2
      [] t = "ha" -> 2
      [] t = "bloqueado" -> 9

\* len(html)
RECURSIVE TextLen(_)
TextLen(text) == IF text = <<>> THEN 0 ELSE Chars(Head(text)) + TextLen(Tail(text))

\* lines 435-452
\* (variant: the word "challenge" alone is an indicator too)
block_indicators_with_challenge ==
    << <<"Please", SP, "enable", SP, "JS">>,
       <<"enable", SP, "JavaScript">>,
       <<"disable", SP, "any", SP, "ad", SP, "blocker">>,
       <<"datadome">>,
       <<"bloqueado">>,
       <<"blocked">>,
       <<"captcha">>,
       <<"challenge">>,
       <<"captcha", SP, "challenge">>,
       <<"security", SP, "challenge">>,
       <<"please", SP, "complete", SP, "the", SP, "challenge">>,
       <<"se", SP, "ha", SP, "detectado", SP, "un", SP, "uso", SP, "indebido">>,
       <<"el", SP, "acceso", SP, "se", SP, "ha", SP, "bloqueado">>,
       <<"uso", SP, "indebido">> >>
block_indicators ==
    << <<"Please", SP, "enable", SP, "JS">>,
       <<"enable", SP, "JavaScript">>,
       <<"disable", SP, "any", SP, "ad", SP, "blocker">>,
       <<"datadome">>,
       <<"bloqueado">>,
       <<"blocked">>,
       <<"captcha">>,
       <<"captcha", SP, "challenge">>,
       <<"security", SP, "challenge">>,
       <<"please", SP, "complete", SP, "the", SP, "challenge">>,
       <<"se", SP, "ha", SP, "detectado", SP, "un", SP, "uso", SP, "indebido">>,
       <<"el", SP, "acceso", SP, "se", SP, "ha", SP, "bloqueado">>,
       <<"uso", SP, "indebido">> >>

\* lines 453-454: any(ind.lower() in lower for ind in block_indicators)
HasBlockIndicator(text) ==
    \E k \in 1..Len(block_indicators) :
        Contains(LowerText(text), LowerText(block_indicators[k]))

\* what is_blocked_page reads from a markup: its length and the indicators
MarkupRead(text) ==
    Html(TextLen(text), HasBlockIndicator(text), 0, <<>>, FALSE, FALSE)

\* the markups of the model: a run of "x", or nothing, followed by a text
Paddings == { <<>>, <<X100>>, <<X499>>, <<X500>>, <<X1000>> }
Tails ==
    { <<>>,
      <<"Please", SP, "enable", SP, "JS", SP, "and", SP, "something">>,
      <<"enable", SP, "JavaScript">>,
      <<"JavaScript", SP, "enable">>,
      <<"DataDome", SP, "block">>,
      <<"CAPTCHA", SP, "required">>,
      <<"El", SP, "acceso", SP, "se", SP, "ha", SP, "bloqueado">>,
      <<H1, ITEMS>>,
      <<H1, SP, "Challenge", SP, "accepted", SP, ITEMS>>,
      <<H1, SP, "security", SP, "Challenge", SP, ITEMS>> }
Markups == { p \o t : p \in Paddings, t \in Tails }

\* is_blocked_page(html)
IsBlockedPage ==
    /\ Len(pure_calls) < MaxPureCalls
    /\ \E text \in Markups :
          pure_calls' = Append(pure_calls,
              PureCall("is_blocked_page", text, is_blocked_page(MarkupRead(text))))
    /\ config' = config
    /\ UNCHANGED <<orch_vars, retry_vars, fetch_vars>>

InitBlocked ==
    /\ AllIdle
    /\ PureIdle

NextBlocked == IsBlockedPage

SpecBlocked == InitBlocked /\ [][NextBlocked]_vars

-----------------------------------------------------------------------------
(* export.py: normalize_listing_link called on its own *)

\* the links of the model: listing 123 as a path and as a URL, without a
\* locale segment and under /en and /ca, with the host in capitals, with
\* blanks around it, followed by more text; listing 1; links without a
\* numeric id; the empty link
LinkTexts ==
    { <<INM, "1", "2", "3", "/">>,
      <<"/en", INM, "1", "2", "3", "/">>,
      <<"/ca", INM, "1", "2", "3", "/">>,
      <<DOM, INM, "1", "2", "3", "/">>,
      <<DOM, "/en", INM, "1", "2", "3", "/">>,
      <<DOM, "/ca", INM, "1", "2", "3">>,
      <<"https://WWW.IDEALISTA.COM", INM, "1", "2", "3", "/">>,
      <<SP, DOM, "/en", INM, "1", "2", "3", "/", "x", NL>>,
      <<DOM, INM, "x", INM, "1", "2", "3", "/">>,
      LinkA, LinkAen, LinkN,
      <<SP, DOM, INM, NL>>,
      <<>> }

\* normalize_listing_link(url) for a link as it is found
NormalizeLink ==
    /\ Len(pure_calls) < MaxPureCalls
    /\ \E url \in LinkTexts :
          pure_calls' = Append(pure_calls,
              PureCall("normalize_listing_link", url, normalize_listing_link(url)))
    /\ config' = config
    /\ UNCHANGED <<orch_vars, retry_vars, fetch_vars>>

\* normalize_listing_link(url) for a link that an earlier call returned
NormalizeAgain ==
    /\ Len(pure_calls) < MaxPureCalls
    /\ \E i \in 1..Len(pure_calls) :
          LET url == pure_calls[i].ret
          IN  pure_calls' = Append(pure_calls,
                  PureCall("normalize_listing_link", url, normalize_listing_link(url)))
    /\ config' = config
    /\ UNCHANGED <<orch_vars, retry_vars, fetch_vars>>

InitLink ==
    /\ AllIdle
    /\ PureIdle

NextLink ==
    \/ NormalizeLink
    \/ NormalizeAgain

SpecLink == InitLink /\ [][NextLink]_vars

-----------------------------------------------------------------------------
(* orchestrator.py, fetcher.py: the construction of a driver-based session *)

\* int() of a run of digits
RECURSIVE IntOf(_)
IntOf(ds) ==
    IF ds = <<>> THEN 0
    ELSE 10 * IntOf(SubSeq(ds, 1, Len(ds) - 1))
         + (CHOOSE d \in 0..9 : DigitStr[d + 1] = ds[Len(ds)])

\* the tokens of an error message whose lower-cased text contains "version",
\* and those whose lower-cased text contains "chromedriver"
VersionTokens ==
    { "current browser version is ",
      "this version of chromedriver only supports chrome version ",
      "unsupported version" }
ChromedriverTokens ==
    { "this version of chromedriver only supports chrome version ",
      "chromedriver executable needs to be in PATH" }

\* re.search(r"Current browser version is (\d+)", err, re.I): the positions
\* of the phrase, in any case, directly followed by a digit
VersionPositions(err) ==
    {i \in 1..Len(err) :
        /\ lower(err[i]) = "current browser version is "
        /\ i + 1 <= Len(err)
        /\ err[i + 1] \in Digits}

\* "version" in err.lower() or "chromedriver" in err.lower()
MentionsVersion(err) ==
    \E i \in 1..Len(err) : lower(err[i]) \in VersionTokens \cup ChromedriverTokens

\* orchestrator.py 270-272, fetcher.py 183-187: the failure is retried
\* (variant: no failure is retried)
falls_back_at_once(err) == FALSE
RetriesPinned(err) == VersionPositions(err) # {} /\ MentionsVersion(err)

\* int(match.group(1)) of the leftmost match
version_main(err) ==
    LET i == CHOOSE k \in VersionPositions(err) :
                 \A j \in VersionPositions(err) : k <= j
    IN  IntOf(DigitRun(err, i + 1))

\* the messages of the exceptions that uc.Chrome raises in the model
UcErrors ==
    { <<"session not created: ",
        "This version of ChromeDriver only supports Chrome version ",
        "1", "1", "4", NL, "Current browser version is ", "1", "2", "0", ".", "0">>,
      <<"current browser version is ", "1", "3", "1">>,
      <<"Current browser version is ", "unknown">>,
      <<"unknown error: ", "cannot find Chrome binary">>,
      <<"chromedriver executable needs to be in PATH">> }

\* one construction: the approach, whether undetected_chromedriver can be
\* imported, what the first uc.Chrome(...) does, whether the pinned
\* uc.Chrome(...) and webdriver.Chrome(...) return a driver
Unraised == [raised |-> FALSE, msg |-> <<>>]
Construction(a, inst, f, r, st) ==
    [approach |-> a, installed |-> inst, first |-> f, retry_ok |-> r,
     std_ok |-> st]
\* (what a construction never comes to is TRUE)
Constructions ==
    { Construction("selenium", TRUE, Unraised, TRUE, st) : st \in BOOLEAN }
    \cup { Construction("undetected", FALSE, Unraised, TRUE, st) : st \in BOOLEAN }
    \cup { Construction("undetected", TRUE, Unraised, TRUE, TRUE) }
    \cup { sc \in { Construction("undetected", TRUE, [raised |-> TRUE, msg |-> m], r, st) :
                      m \in UcErrors, r \in BOOLEAN, st \in BOOLEAN } :
             ~RetriesPinned(sc.first.msg) => sc.retry_ok }

\* the constructor calls of one construction
UcChrome(v) == [ctor |-> "uc.Chrome", version_main |-> v]
WebdriverChrome == [ctor |-> "webdriver.Chrome", version_main |-> NoNumber]

\* orchestrator.py 287-331, fetcher.py 203-245 without CHROME_CDP_URL: the
\* standard Selenium driver, made when driver is still None
StandardDriver(made, sc) ==
    [calls |-> Append(made, WebdriverChrome), approach |-> "selenium",
     driver |-> IF sc.std_ok THEN "selenium" ELSE None, raised |-> ~sc.std_ok]

\* orchestrator.py 250-331 and fetcher.py 174-245: the driver of the run, or
\* of a fetch called without one
make_driver(sc) ==
    IF sc.approach # "undetected" \/ ~sc.installed
    THEN StandardDriver(<<>>, sc)
    ELSE IF ~sc.first.raised
         THEN [calls |-> <<UcChrome(NoNumber)>>, approach |-> "undetected",
               driver |-> "undetected", raised |-> FALSE]
         ELSE IF RetriesPinned(sc.first.msg)
              THEN LET v == version_main(sc.first.msg)
                   IN  IF sc.retry_ok
                       THEN [calls |-> <<UcChrome(NoNumber), UcChrome(v)>>,
                             approach |-> "undetected",
                             driver |-> "undetected", raised |-> FALSE]
                       ELSE StandardDriver(<<UcChrome(NoNumber), UcChrome(v)>>, sc)
              ELSE StandardDriver(<<UcChrome(NoNumber)>>, sc)

\* run() makes the driver of the run
RunMakesDriver ==
    /\ Len(pure_calls) < MaxPureCalls
    /\ \E sc \in Constructions :
          pure_calls' = Append(pure_calls, PureCall("run", sc, make_driver(sc)))
    /\ config' = config
    /\ UNCHANGED <<orch_vars, retry_vars, fetch_vars>>

\* _fetch_html_selenium_sync(None, url) makes its own driver
FetchMakesDriver ==
    /\ Len(pure_calls) < MaxPureCalls
    /\ \E sc \in Constructions :
          pure_calls' = Append(pure_calls,
              PureCall("_fetch_html_selenium_sync", sc, make_driver(sc)))
    /\ config' = config
    /\ UNCHANGED <<orch_vars, retry_vars, fetch_vars>>

InitConstruct ==
    /\ AllIdle
    /\ PureIdle

NextConstruct ==
    \/ RunMakesDriver
    \/ FetchMakesDriver

SpecConstruct == InitConstruct /\ [][NextConstruct]_vars

-----------------------------------------------------------------------------
(* fetcher.py: _human_scroll_playwright and _human_scroll *)

\* the values of document.body.scrollHeight in the model
ScrollHeights == {0, 300, 800, 1001, 1600, 2003, 5000}
\* random.randint(2, 4)
ScrollDivisors == 2..4

\* lines 93 and 134: step = max(400, total // n)
ScrollStep(total, n) == Max(400, total \div n)

\* lines 94-97 and 135-138: the positions passed to window.scrollTo
RECURSIVE ScrollLoop(_, _, _)
ScrollLoop(pos, step, total) ==
    IF pos < total
    THEN LET next == Min(pos + step, total)
         IN  <<next>> \o ScrollLoop(next, step, total)
    ELSE <<>>

ScrollPositions(total, n) == ScrollLoop(0, ScrollStep(total, n), total)

\* _human_scroll_playwright(page)
HumanScrollPlaywright ==
    /\ Len(pure_calls) < MaxPureCalls
    /\ \E total \in ScrollHeights, n \in ScrollDivisors :
          pure_calls' = Append(pure_calls,
              PureCall("_human_scroll_playwright", <<total, n>>,
                       ScrollPositions(total, n)))
    /\ config' = config
    /\ UNCHANGED <<orch_vars, retry_vars, fetch_vars>>

\* _human_scroll(driver), no script raising
HumanScroll ==
    /\ Len(pure_calls) < MaxPureCalls
    /\ \E total \in ScrollHeights, n \in ScrollDivisors :
          pure_calls' = Append(pure_calls,
              PureCall("_human_scroll", <<total, n>>, ScrollPositions(total, n)))
    /\ config' = config
    /\ UNCHANGED <<orch_vars, retry_vars, fetch_vars>>

InitScroll ==
    /\ AllIdle
    /\ PureIdle

NextScroll ==
    \/ HumanScrollPlaywright
    \/ HumanScroll

SpecScroll == InitScroll /\ [][NextScroll]_vars

-----------------------------------------------------------------------------
(* fetcher.py: _fetch_html_selenium_sync and the driver it is given or makes *)

\* one call: whether the caller passes a driver; for a call without one, how
\* the driver is made ("new": no CHROME_CDP_URL, or the attach failed and a
\* new browser was started; "attached": webdriver.Chrome attached to
\* CHROME_CDP_URL); the statement of _do_fetch that raises, if any; whether
\* driver.quit() raises
SyncCall(given, how, at, qr) ==
    [driver_given |-> given, made |-> how, raises_at |-> at, quit_raises |-> qr]
SyncCalls ==
    { SyncCall(TRUE, "none", at, FALSE) : at \in RaisingSteps \cup {"none"} }
    \cup { SyncCall(FALSE, "attached", at, FALSE) : at \in RaisingSteps \cup {"none"} }
    \cup { SyncCall(FALSE, "new", at, qr) :
             at \in RaisingSteps \cup {"none"}, qr \in BOOLEAN }

\* line 280: the test of the finally clause (driver is not None there)
\* (variant: the driver is quit whoever made it)
quits_every_driver(own_driver, attached_to_user_chrome) == TRUE
QuitsInFinally(own_driver, attached_to_user_chrome) ==
    own_driver /\ ~attached_to_user_chrome

\* lines 168-169, 203-209, 274-285: whose session the fetch used, whether the
\* fetch called driver.quit() on it, whether the fetch raised (an error of
\* driver.quit() is swallowed at line 283)
fetch_html_selenium_sync(c) ==
    LET own_driver == ~c.driver_given
        attached_to_user_chrome == own_driver /\ c.made = "attached"
    IN  [session |-> IF ~own_driver THEN "caller"
                     ELSE IF attached_to_user_chrome THEN "attached" ELSE "own",
         quit |-> QuitsInFinally(own_driver, attached_to_user_chrome),
         raised |-> c.raises_at # "none"]

\* _fetch_html_selenium_sync(driver, url) with the caller's driver
FetchWithDriver ==
    /\ Len(pure_calls) < MaxPureCalls
    /\ \E c \in {x \in SyncCalls : x.driver_given} :
          pure_calls' = Append(pure_calls,
              PureCall("_fetch_html_selenium_sync", c, fetch_html_selenium_sync(c)))
    /\ config' = config
    /\ UNCHANGED <<orch_vars, retry_vars, fetch_vars>>

\* _fetch_html_selenium_sync(None, url)
FetchWithoutDriver ==
    /\ Len(pure_calls) < MaxPureCalls
    /\ \E c \in {x \in SyncCalls : ~x.driver_given} :
          pure_calls' = Append(pure_calls,
              PureCall("_fetch_html_selenium_sync", c, fetch_html_selenium_sync(c)))
    /\ config' = config
    /\ UNCHANGED <<orch_vars, retry_vars, fetch_vars>>

InitOwn ==
    /\ AllIdle
    /\ PureIdle

NextOwn ==
    \/ FetchWithDriver
    \/ FetchWithoutDriver

SpecOwn == InitOwn /\ [][NextOwn]_vars

-----------------------------------------------------------------------------
(* fetcher.py: the status code a fetch returns *)

\* what a navigation got from the site: a response with its status code, or
\* no response at all
Response(st) == [none |-> FALSE, status |-> st]
NoResponse == [none |-> TRUE, status |-> 0]
Navigations == {NoResponse} \cup {Response(st) : st \in {200, 403, 404, 503}}

\* fetch_html_with_page, line 116: the status of what page.goto returned
status_of_goto(resp) == IF resp.none THEN 0 ELSE resp.status

\* _do_fetch, lines 250 and 273: driver.get returns nothing, the status
\* returned is written in the return statement
status_of_get(nav) == 200

\* fetch_html_with_page(page, url), for a navigation that did not raise
FetchHtmlWithPage ==
    /\ Len(pure_calls) < MaxPureCalls
    /\ \E nav \in Navigations :
          pure_calls' = Append(pure_calls,
              PureCall("fetch_html_with_page", nav, status_of_goto(nav)))
    /\ config' = config
    /\ UNCHANGED <<orch_vars, retry_vars, fetch_vars>>

\* _do_fetch() of _fetch_html_selenium_sync, for a navigation that did not
\* raise
DoFetch ==
    /\ Len(pure_calls) < MaxPureCalls
    /\ \E nav \in Navigations :
          pure_calls' = Append(pure_calls,
              PureCall("_do_fetch", nav, status_of_get(nav)))
    /\ config' = config
    /\ UNCHANGED <<orch_vars, retry_vars, fetch_vars>>

InitStatus ==
    /\ AllIdle
    /\ PureIdle

NextStatus ==
    \/ FetchHtmlWithPage
    \/ DoFetch

SpecStatus == InitStatus /\ [][NextStatus]_vars


-----------------------------------------------------------------------------
(* Properties of a run (Spec) *)

Canon(rec) == normalize_listing_link(rec.link)

\* C1: every record passed to on_record, and every record of the result
\* list, has a link whose canonical form is not in the supplied SeenLinks
\* set, with fetch_details true or false.
C1_EmittedNotSeen ==
    /\ \A i \in 1..Len(emitted) : Canon(emitted[i]) \notin already_seen
    /\ \A i \in 1..Len(results) : Canon(results[i]) \notin already_seen

\* a finished run that showed a listing of SeenLinks and emitted others
C1_Witness ==
    /\ pc = "done"
    /\ results # <<>>
    /\ \E i \in 1..Len(all_cards) : Canon(all_cards[i]) \in already_seen

\* C2: within one run no two emitted records have the same canonical link,
\* and no two detail fetches are made for the same canonical link.
C2_OncePerCanonicalLink ==
    /\ \A i, j \in 1..Len(emitted) :
          i < j => Canon(emitted[i]) # Canon(emitted[j])
    /\ \A i, j \in 1..Len(fetched) :
          (i < j /\ fetched[i].kind = "detail" /\ fetched[j].kind = "detail")
          => normalize_listing_link(fetched[i].url)
               # normalize_listing_link(fetched[j].url)

\* the same listing under two locale prefixes, on two different pages, in a
\* finished run with detail fetches that emitted it
C2_Witness ==
    /\ fetch_details
    /\ pc = "done"
    /\ \E i, j \in 1..Len(all_cards) :
          /\ i <= 2 /\ j > 2
          /\ all_cards[i].link # all_cards[j].link
          /\ Canon(all_cards[i]) = Canon(all_cards[j])
          /\ \E k \in 1..Len(emitted) : emitted[k].link = Canon(all_cards[i])

\* the run's own classification of page 1 as blocked (lines 54-58):
\* is_blocked_page, unless the page is long or looks like a listing page
ClassifiedBlocked(html) ==
    /\ is_blocked_page(html)
    /\ html.len < LONG_OK_LEN
    /\ ~looks_like_listing_page(html)

\* C4: if page 1 comes back non-200 or classified blocked, the run ends with
\* the run-level error: on_record is never called, nothing else is fetched,
\* no result list is returned.
C4_FirstPageFatal ==
    /\ (fetched = <<PageFetch(1)>>
        /\ (last.status # 200 \/ ClassifiedBlocked(last.html)))
       => (pc = "raised" /\ exc = "RuntimeError")
    /\ exc = "RuntimeError"
       => (pc = "raised" /\ fetched = <<PageFetch(1)>>
           /\ emitted = <<>> /\ results = <<>>)

\* page 1 came back with status 200 and was classified blocked
C4_Witness ==
    /\ exc = "RuntimeError"
    /\ last.fetch = PageFetch(1)
    /\ last.status = 200

\* C5: after page 1 has succeeded, a failed page fetch is skipped and the
\* next page is attempted, a failed detail fetch yields the card-only record,
\* and neither ends the run with an error.
C5_LaterFailuresNotFatal ==
    /\ exc = "RuntimeError" => fetched = <<PageFetch(1)>>
    /\ (last.fetch.kind = "page" /\ last.fetch.page > 1 /\ last.status # 200)
       => /\ exc = "none"
          /\ page_num = last.fetch.page + 1
          /\ \/ pc = "page_loop" /\ page_num >= start_page
             \/ pc = "done" /\ page_num > total_pages
    /\ (last.fetch.kind = "detail" /\ last.status # 200)
       => /\ exc # "RuntimeError"
          /\ \E k \in 1..Len(emitted) :
                emitted[k] = [link |-> last.fetch.url, detail |-> FALSE]
          /\ exc = "none"
             => /\ pc \in {"process_cards", "page_loop", "done"}
                /\ results[Len(results)] = [link |-> last.fetch.url, detail |-> FALSE]

\* page 2 has just failed and page 3 is next, after a detail fetch failed
\* and left a card-only record
C5_Witness ==
    /\ fetch_details
    /\ exc = "none"
    /\ last.fetch = PageFetch(2)
    /\ last.status # 200
    /\ pc = "page_loop"
    /\ page_num = 3
    /\ page_num <= total_pages
    /\ \E k \in 1..Len(results) : ~results[k].detail

\* the page numbers passed to fetch_html_with_retry never go down, and the
\* loop steps are those of strictly ascending page numbers
PagesAscending ==
    /\ \A i, j \in 1..Len(fetched) :
          (i < j /\ fetched[i].kind = "page" /\ fetched[j].kind = "page")
          => fetched[i].page <= fetched[j].page
    /\ \A i, j \in 1..Len(page_log) : i < j => page_log[i].page < page_log[j].page

\* the detail fetches so far are those of the first unique unseen cards, in
\* the order in which the cards were parsed
ProcessedInParsedOrder ==
    LET d == SelectSeq(fetched, LAMBDA f : f.kind = "detail")
        u == _dedupe_unique(all_cards)
    IN  /\ Len(d) <= Len(u)
        /\ \A k \in 1..Len(d) : d[k].url = normalize_listing_link(u[k].link)

\* every unique unseen card parsed so far has been processed
AllParsedProcessed ==
    \A i \in 1..Len(all_cards) :
        LET canonical == normalize_listing_link(all_cards[i].link)
        IN  (canonical # <<>> /\ canonical \notin already_seen)
            => canonical \in processed_links

\* this step passes a search page after page 1 to fetch_html_with_retry
FetchesLaterPage ==
    /\ Len(fetched') = Len(fetched) + 1
    /\ fetched'[Len(fetched')].kind = "page"
    /\ fetched'[Len(fetched')].page > 1

\* C16: search pages are fetched in ascending page-number order, each page
\* number is a loop step at most once, and when a later page is fetched all
\* listings of the pages before it have been processed, in the order parsed.
C16_PageOrder ==
    /\ [](PagesAscending /\ ProcessedInParsedOrder)
    /\ [][(fetch_details /\ FetchesLaterPage) => AllParsedProcessed]_vars

\* (the same, for the runs that do not resume from a later page)
C16_WithoutResume ==
    /\ [](PagesAscending /\ ProcessedInParsedOrder)
    /\ [][(fetch_details /\ start_page <= 1 /\ FetchesLaterPage)
            => AllParsedProcessed]_vars

IsPrefix(a, b) == Len(a) <= Len(b) /\ SubSeq(b, 1, Len(a)) = a

\* C17: every record is passed to on_record exactly once and appended to the
\* result list: the on_record calls are the result list, in the same order
\* (followed, if the last call raised, by the record of that call), the
\* returned list equals the sequence of calls, and the result list only
\* grows at its end.
C17_EmitOnceAndAppend ==
    /\ [](/\ \A i, j \in 1..Len(emitted) : i < j => emitted[i] # emitted[j]
          /\ IF exc = "OnRecordError"
             THEN emitted = Append(results, emitted[Len(emitted)])
             ELSE emitted = results
          /\ pc = "done" => emitted = results
          /\ fetch_details
             => processed_links = {emitted[i].link : i \in 1..Len(emitted)})
    /\ [][IsPrefix(results, results')]_vars

\* a run returned three records, with and without detail
C17_Witness ==
    /\ pc = "done"
    /\ Len(results) >= 3
    /\ \E i, j \in 1..Len(results) : results[i].detail /\ ~results[j].detail

\* every unique unseen card parsed so far was emitted as a card-only record
CardsEmittedCardOnly ==
    \A i \in 1..Len(all_cards) :
        LET canonical == normalize_listing_link(all_cards[i].link)
        IN  (canonical # <<>> /\ canonical \notin already_seen)
            => \E k \in 1..Len(emitted) :
                  emitted[k] = [link |-> canonical, detail |-> FALSE]

\* C20: with fetch_details false the run still paginates: when it returns,
\* the first page of the loop (page 2, or the resume point) has been fetched,
\* and the unseen cards of the pages fetched were emitted as card-only
\* records.
C20_PaginatesWithoutDetails ==
    (~fetch_details /\ pc = "done")
    => /\ total_pages >= 2
          => \E k \in 1..Len(fetched) : fetched[k] = PageFetch(Max(2, start_page))
       /\ CardsEmittedCardOnly

\* (what holds of such a run: page 1 alone is fetched, its unseen cards are
\* emitted as card-only records)
C20_FirstPageOnly ==
    (~fetch_details /\ pc = "done")
    => /\ fetched = <<PageFetch(1)>>
       /\ CardsEmittedCardOnly

\* C27: when a page after page 1 comes back 200 with at least one card and
\* its first card's link is the first link of page 1, pagination stops: the
\* run returns, that page's fetch is the last fetch of the run (so none of
\* its cards is emitted) and no later page is fetched.
C27_DuplicateStops ==
    /\ \A i \in 1..Len(page_log) :
          page_log[i].class = "duplicate"
          => /\ i = Len(page_log)
             /\ pc = "done"
             /\ exc = "none"
             /\ page_num = page_log[i].page
             /\ fetched[Len(fetched)] = PageFetch(page_log[i].page)
    /\ (/\ last.fetch.kind = "page"
        /\ last.fetch.page > 1
        /\ last.status = 200
        /\ last.html.cards # <<>>
        /\ first_page_first_link # NoLink
        /\ last.html.cards[1].link = first_page_first_link)
       => /\ page_log # <<>>
          /\ page_log[Len(page_log)] =
                [page |-> last.fetch.page, class |-> "duplicate"]

\* page 2 began with the first link of page 1 and ended a run that was
\* allowed a third page, after records had been emitted
C27_Witness ==
    /\ page_log = <<[page |-> 2, class |-> "duplicate"]>>
    /\ total_pages >= 3
    /\ results # <<>>
    /\ Len(last.html.cards) = 2

-----------------------------------------------------------------------------
(* Properties of pagination (SpecPages) *)

\* the loop steps i and i+1 are those of two pages in sequence
Sequential(i) ==
    /\ i >= 1 /\ i + 1 <= Len(page_log)
    /\ page_log[i + 1].page = page_log[i].page + 1

\* the largest page number passed to fetch_html_with_retry so far
LastPageFetched ==
    LET ps == {fetched[k].page : k \in {j \in 1..Len(fetched) : fetched[j].kind = "page"}}
    IN  IF ps = {} THEN 0 ELSE CHOOSE m \in ps : \A q \in ps : q <= m

\* C11: two pages in sequence that are both still blocked after their retry
\* end pagination, no later page is fetched; when a page that failed with a
\* non-200 status lies between two blocked pages, the second blocked page
\* does not end pagination: the loop goes on to the page after it.
C11_ConsecutiveBlockStop ==
    /\ \A i \in 1..Len(page_log) :
          (Sequential(i) /\ page_log[i].class = "blocked"
                         /\ page_log[i + 1].class = "blocked")
          => /\ i + 1 = Len(page_log)
             /\ pc = "done"
             /\ page_num = page_log[i + 1].page
             /\ LastPageFetched = page_log[i + 1].page
    /\ \A i \in 1..Len(page_log) :
          (Sequential(i) /\ Sequential(i + 1)
             /\ page_log[i].class = "blocked"
             /\ page_log[i + 1].class = "failed"
             /\ page_log[i + 2].class = "blocked")
          => /\ page_num > page_log[i + 2].page
             /\ i + 2 = Len(page_log)
                => /\ page_num = page_log[i + 2].page + 1
                   /\ \/ pc \in {"page_loop", "page_retry"}
                      \/ pc = "done" /\ page_num > total_pages
             /\ i + 2 < Len(page_log)
                => page_log[i + 3].page = page_log[i + 2].page + 1

\* pages 2 and 4 blocked after their retry, page 3 failed, page 5 attempted
C11_Witness ==
    /\ Len(page_log) >= 4
    /\ page_log[1].class = "blocked"
    /\ page_log[2].class = "failed"
    /\ page_log[3].class = "blocked"
    /\ page_log[4].page = 5

-----------------------------------------------------------------------------
(* Properties of the browser sessions of run() (SpecSession) *)

\* C12: when run() has ended on the driver-based path, by a return, by the
\* page-1 error or by another exception, every session that the run created
\* itself (the sessions created by a restart among them) has been quit.
C12_OwnedSessionsQuit ==
    run_pc = "ended"
    => \A i \in 1..Len(sessions) : ~sessions[i].attached => sessions[i].quit

\* (the same, for the runs whose first session is not an attached one)
C12_WhenNotAttached ==
    (run_pc = "ended" /\ ~attached)
    => \A i \in 1..Len(sessions) : ~sessions[i].attached => sessions[i].quit

\* C13: a session attached to CHROME_CDP_URL is never quit by the run, neither
\* at its end nor by a restart after a block.
C13_AttachedNeverQuit ==
    \A i \in 1..Len(sessions) : sessions[i].attached => ~sessions[i].quit

\* the fetches that follow restart number j, up to the next restart
FetchesAfter(j) ==
    {k \in 1..Len(used) :
        /\ k >= restarts[j].next_fetch
        /\ j < Len(restarts) => k < restarts[j + 1].next_fetch}

\* C14: a restart quits the current session and, whether or not that raised,
\* goes on to create a session; the session it creates is a new one and is
\* not attached; every fetch after a restart that created a session is given
\* that session.
C14_Restart ==
    \A j \in 1..Len(restarts) :
        LET r == restarts[j]
        IN  /\ r.old # 0 => sessions[r.old].quit
            /\ r.created <=> r.new # 0
            /\ r.new # 0
               => /\ r.new # r.old
                  /\ \A i \in 1..(j - 1) : restarts[i].new < r.new
                  /\ r.new > 1
                  /\ ~sessions[r.new].attached
                  /\ \A k \in FetchesAfter(j) : used[k] = r.new

\* a restart whose quit raised created a session, and the retry of the page
\* and a later fetch were given it
C14_Witness ==
    \E j \in 1..Len(restarts) :
        /\ restarts[j].quit_raised
        /\ restarts[j].new # 0
        /\ Cardinality(FetchesAfter(j)) >= 2

-----------------------------------------------------------------------------
(* Properties of _fetch_html_selenium_sync on a shared driver (SpecFetch) *)

\* C15: when the callers share a driver and pass its lock, no two of them
\* are inside _do_fetch at the same time, and a caller holds the lock exactly
\* while it is inside _do_fetch, from the delay before the request to the
\* reading of the page source: the lock is free again after a return and
\* after an exception.
C15_OneFetchAtATime ==
    driver_lock
    => /\ \A t1, t2 \in Threads : (InDoFetch(t1) /\ InDoFetch(t2)) => t1 = t2
       /\ \A t \in Threads : InDoFetch(t) <=> lock_owner = t
       /\ (\A t \in Threads : ~InDoFetch(t)) => lock_owner = 0

\* one thread's fetch has raised and another thread is reading the page
\* source under the lock
C15_Witness ==
    /\ driver_lock
    /\ \E t1, t2 \in Threads :
          /\ th_pc[t1] = "raised"
          /\ th_pc[t2] = "page_source"
          /\ lock_owner = t2

-----------------------------------------------------------------------------
(* Properties of the page arithmetic (SpecLong) *)

\* page 1 has been parsed
Parsed == pc \notin {"page1", "raised"}

\* the least n with 30 * n >= t
CeilOf30(t) ==
    CHOOSE n \in (t \div 30)..((t \div 30) + 1) : 30 * n >= t /\ 30 * (n - 1) < t

PagesFetched == {fetched[k].page : k \in {j \in 1..Len(fetched) : fetched[j].kind = "page"}}

\* C18: if the total parsed from page 1 is above 30, totalPages is
\* min(60, ceil(total / 30), max_pages), otherwise min(60, max_pages); a total
\* of 1234 gives 42 pages when max_pages allows; no page with a number above
\* totalPages is requested.
C18_TotalPages ==
    /\ Parsed
       => total_pages = IF total_count > 30
                        THEN Min(60, Min(CeilOf30(total_count), max_pages))
                        ELSE Min(60, max_pages)
    /\ (Parsed /\ total_count = 1234 /\ max_pages >= 42) => total_pages = 42
    /\ \A p \in PagesFetched : p <= total_pages

\* a total of 1234 and max_pages 60: the run ended after page 42
C18_Witness ==
    /\ pc = "done"
    /\ fetch_details
    /\ total_count = 1234
    /\ max_pages = 60
    /\ LastPageFetched = 42

\* C19: with a SeenLinks set that is not empty, startPage is
\* min(totalPages, floor(|SeenLinks| / 30) + 1), which is 8 for 238 links when
\* totalPages >= 8; page 1 is fetched first, no page between 1 and startPage
\* is fetched; with an empty set no page is skipped.
C19_StartPage ==
    /\ (Parsed /\ already_seen # {})
       => start_page = Min(total_pages, (Cardinality(already_seen) \div 30) + 1)
    /\ (Parsed /\ Cardinality(already_seen) = 238 /\ total_pages >= 8)
       => start_page = 8
    /\ fetched # <<>> => fetched[1] = PageFetch(1)
    /\ \A p \in PagesFetched : ~ (1 < p /\ p < start_page)
    /\ (Parsed /\ fetch_details /\ pc # "process_cards")
       => PagesFetched = {1} \cup (Max(2, start_page)..(page_num - 1))
    /\ (Parsed /\ already_seen = {}) => start_page = 1

\* 238 links seen: the run fetched page 1, then pages 8 and 9
C19_Witness ==
    /\ Cardinality(already_seen) = 238
    /\ start_page = 8
    /\ {1, 8, 9} \subseteq PagesFetched
    /\ 2 \notin PagesFetched

-----------------------------------------------------------------------------
(* Properties of the CLI's runs on one CSV file (SpecCli) *)

\* C3: after any sequence of CLI runs with resume enabled, each of which may
\* end at any point, the CSV holds no two rows whose links canonicalize to
\* the same value.
C3_CsvLinksUnique ==
    \A i, j \in 1..Len(csv) :
        i < j => normalize_listing_link(strip(csv[i].link))
                   # normalize_listing_link(strip(csv[j].link))

-----------------------------------------------------------------------------
(* Properties of fetch_html_with_retry (SpecRetry) *)

AllRaised == \A i \in 1..Len(attempts) : attempts[i].raised
No200 == \A i \in 1..Len(attempts) : attempts[i].raised \/ attempts[i].status # 200

\* C6: with a fetch that raises on every call, max_retries = n >= 1 and a
\* schedule that is not empty (the default one in particular), the call
\* returns ("", 0) without raising, after exactly n attempts and n-1 sleeps.
C6_AlwaysRaisingFetch ==
    (max_retries >= 1 /\ backoff_sec # <<>> /\ AllRaised)
    => /\ rt_pc # "raised"
       /\ Len(attempts) <= max_retries
       /\ rt_pc = "returned"
          => /\ rt_return = <<EmptyHtml, 0>>
             /\ Len(attempts) = max_retries
             /\ Len(sleeps) = max_retries - 1

\* three attempts that all raised, default schedule, and the call returned
C6_Witness ==
    /\ rt_pc = "returned"
    /\ max_retries = 3
    /\ backoff_sec = DEFAULT_BACKOFF
    /\ Len(attempts) = 3
    /\ AllRaised

\* C7: fetch_html_with_retry never raises, for every max_retries >= 0 and
\* every backoff schedule, an empty one included.
C7_NeverRaises == rt_pc # "raised"

\* C8: the first attempt with status 200 ends the call: its (html, 200) is
\* returned, no attempt and no sleep follows it.
C8_ReturnsOnFirst200 ==
    \A i \in 1..Len(attempts) :
        (~attempts[i].raised /\ attempts[i].status = 200)
        => /\ i = Len(attempts)
           /\ rt_pc = "returned"
           /\ rt_return = <<attempts[i].html, 200>>
           /\ Len(sleeps) = i - 1

\* the second attempt returned status 200
C8_Witness ==
    /\ rt_pc = "returned"
    /\ Len(attempts) = 2
    /\ ~attempts[2].raised
    /\ attempts[2].status = 200

C10_BackoffSchedule ==
    /\ \A i \in 1..Len(sleeps) :
          sleeps[i] = IF i <= Len(backoff_sec)
                      THEN backoff_sec[i]
                      ELSE backoff_sec[Len(backoff_sec)]
    /\ (rt_pc = "loop" /\ attempt < max_retries) => Len(sleeps) = Len(attempts)
    /\ rt_pc = "returned" => Len(sleeps) = Len(attempts) - (IF attempts = <<>> THEN 0 ELSE 1)
    /\ (backoff_sec = DEFAULT_BACKOFF /\ max_retries = DEFAULT_MAX_RETRIES)
       => sleeps \in { <<>>, <<10>>, <<10, 30>> }

\* a one-element schedule used twice: the second sleep is the clamped one
C10_Witness ==
    /\ backoff_sec = <<5>>
    /\ max_retries = 3
    /\ sleeps = <<5, 5>>

-----------------------------------------------------------------------------
(* Properties of resolve_approach (SpecApproach) *)

FourApproaches == {"undetected", "selenium", "playwright", "playwright_cdp"}

\* the approach an override names, whatever its letter case: "" for none
NamedBy(o) ==
    IF o \in {"selenium", "SELENIUM"} THEN "selenium"
    ELSE IF o \in {"undetected", "Undetected"} THEN "undetected"
    ELSE IF o = "playwright" THEN "playwright"
    ELSE IF o \in {"playwright_cdp", "Playwright_CDP"} THEN "playwright_cdp"
    ELSE ""

\* C21: resolve_approach always returns one of the four approaches, changes
\* nothing, returns the same value for the same override, and follows the
\* precedence: a recognized override; else a recognized SCRAPER_APPROACH; else
\* "selenium" if USE_SELENIUM; else "playwright_cdp" if CHROME_CDP_URL is set;
\* else "playwright".  An unrecognized override or SCRAPER_APPROACH is ignored.
C21_ResolvePrecedence ==
    /\ [](\A i \in 1..Len(pure_calls) :
            LET o == pure_calls[i].arg
                r == pure_calls[i].ret
                c == config.SCRAPER_APPROACH
            IN  /\ r \in FourApproaches
                /\ r = IF NamedBy(o) # "" THEN NamedBy(o)
                       ELSE IF c \in FourApproaches THEN c
                       ELSE IF config.USE_SELENIUM THEN "selenium"
                       ELSE IF config.CHROME_CDP_URL # None THEN "playwright_cdp"
                       ELSE "playwright"
                /\ \A j \in 1..Len(pure_calls) :
                      pure_calls[j].arg = o => pure_calls[j].ret = r)
    /\ [][/\ config' = config
          /\ IsPrefix(pure_calls, pure_calls')]_vars

\* SCRAPER_APPROACH and USE_SELENIUM are both set: an override in capitals
\* was followed, an unrecognized one was ignored for SCRAPER_APPROACH
C21_Witness ==
    /\ config.SCRAPER_APPROACH = "undetected"
    /\ config.USE_SELENIUM
    /\ \E i, j \in 1..Len(pure_calls) :
          /\ pure_calls[i].arg = "Playwright_CDP"
          /\ pure_calls[i].ret = "playwright_cdp"
          /\ pure_calls[j].arg = "firefox"
          /\ pure_calls[j].ret = "undetected"

-----------------------------------------------------------------------------
(* Properties of is_blocked_page (SpecBlocked) *)

\* the fixed block phrases, in lower case
BlockPhrases ==
    { <<"please", SP, "enable", SP, "js">>,
      <<"enable", SP, "javascript">>,
      <<"disable", SP, "any", SP, "ad", SP, "blocker">>,
      <<"datadome">>, <<"bloqueado">>, <<"blocked">>, <<"captcha">>,
      <<"captcha", SP, "challenge">>,
      <<"security", SP, "challenge">>,
      <<"please", SP, "complete", SP, "the", SP, "challenge">>,
      <<"se", SP, "ha", SP, "detectado", SP, "un", SP, "uso", SP, "indebido">>,
      <<"el", SP, "acceso", SP, "se", SP, "ha", SP, "bloqueado">>,
      <<"uso", SP, "indebido">> }

\* the phrase occurs in the text, letter case set aside
OccursIgnoringCase(text, phrase) ==
    \E i \in 0..(Len(text) - Len(phrase)) :
        \A j \in 1..Len(phrase) : lower(text[i + j]) = phrase[j]

HasWord(text, w) == \E i \in 1..Len(text) : text[i] = w

\* C22: is_blocked_page(html) is true exactly when html is empty, shorter
\* than 500 characters, or contains one of the fixed block phrases in any
\* letter case; a page of 500 or more characters with a total-count header
\* and a listing container and none of the phrases is not blocked, also when
\* it contains the word "challenge" on its own.
C22_BlockedExactly ==
    \A i \in 1..Len(pure_calls) :
        LET text == pure_calls[i].arg
            blocked == pure_calls[i].ret
            phrase == \E ph \in BlockPhrases : OccursIgnoringCase(text, ph)
        IN  /\ blocked <=> (text = <<>> \/ TextLen(text) < 500 \/ phrase)
            /\ (/\ TextLen(text) >= 500
                /\ HasWord(text, H1) /\ HasWord(text, ITEMS)
                /\ ~phrase)
               => ~blocked
            /\ (/\ TextLen(text) >= 500
                /\ HasWord(text, H1) /\ HasWord(text, ITEMS)
                /\ HasWord(text, "Challenge")
                /\ ~HasWord(text, "security"))
               => ~blocked

\* a listing page with the word "challenge" was classified not blocked, and
\* a page of 1000 characters with "DataDome block" was classified blocked
C22_Witness ==
    \E i, j \in 1..Len(pure_calls) :
        /\ pure_calls[i].arg = <<X500, H1, SP, "Challenge", SP, "accepted", SP, ITEMS>>
        /\ ~pure_calls[i].ret
        /\ pure_calls[j].arg = <<X1000, "DataDome", SP, "block">>
        /\ pure_calls[j].ret

-----------------------------------------------------------------------------
(* Properties of the block classification by the run (SpecDetect) *)

\* the most recent fetch was that of a search page and came back 200
SearchPage200 == last.fetch.kind = "page" /\ last.fetch.page >= 1 /\ last.status = 200

\* the run handled the page of the most recent fetch as blocked: the page-1
\* error, or the restart and retry of a later page, or the count of a page
\* still blocked after its retry
HandledAsBlocked ==
    \/ exc = "RuntimeError"
    \/ pc = "page_retry"
    \/ /\ page_log # <<>>
       /\ page_log[Len(page_log)].page = last.fetch.page
       /\ page_log[Len(page_log)].class = "blocked"

\* C23: a search page (page 1 or later) that comes back 200 with a markup of
\* at least 12,000 characters is never handled as blocked, whatever phrases
\* it holds: no run-level error, no restart, no retry, no increment of the
\* consecutive-blocked counter.
C23_LongPageUnblocked ==
    (SearchPage200 /\ last.html.len >= LONG_OK_LEN) => ~HandledAsBlocked

\* (what holds: the same for page 1 alone)
C23_OnFirstPage ==
    (SearchPage200 /\ last.fetch.page = 1 /\ last.html.len >= LONG_OK_LEN)
    => ~HandledAsBlocked

\* C24: a search page that comes back 200 and for which
\* looks_like_listing_page is true is never handled as blocked, also when
\* is_blocked_page is true for it.
C24_ListingLikeUnblocked ==
    (SearchPage200 /\ looks_like_listing_page(last.html)) => ~HandledAsBlocked

\* (what holds: the same for page 1 alone)
C24_OnFirstPage ==
    (SearchPage200 /\ last.fetch.page = 1 /\ looks_like_listing_page(last.html))
    => ~HandledAsBlocked

-----------------------------------------------------------------------------
(* Properties of normalize_listing_link (SpecLink) *)

\* the listing id of a link: the first run of digits after "/inmueble/"
\* (empty when the link has none)
ListingId(url) ==
    IF MatchPositions(url) = {} THEN <<>>
    ELSE DigitRun(url, (CHOOSE k \in MatchPositions(url) :
                            \A j \in MatchPositions(url) : k <= j) + 1)

HasHost(url) == \E i \in 1..Len(url) : url[i] \in IdealistaTokens

Idempotent ==
    \A i \in 1..Len(pure_calls) :
        normalize_listing_link(pure_calls[i].ret) = pure_calls[i].ret

\* C25: normalize_listing_link is idempotent, and two links with the same
\* listing id normalize to the same string, "/inmueble/123/",
\* "/en/inmueble/123/" and "/ca/inmueble/123/" in particular.
C25_IdempotentLocaleInvariant ==
    /\ Idempotent
    /\ \A i, j \in 1..Len(pure_calls) :
          (/\ ListingId(pure_calls[i].arg) # <<>>
           /\ ListingId(pure_calls[i].arg) = ListingId(pure_calls[j].arg))
          => pure_calls[i].ret = pure_calls[j].ret

\* (what holds: the same for links that contain "idealista")
C25_ForLinksWithHost ==
    /\ Idempotent
    /\ \A i, j \in 1..Len(pure_calls) :
          (/\ HasHost(pure_calls[i].arg) /\ HasHost(pure_calls[j].arg)
           /\ ListingId(pure_calls[i].arg) # <<>>
           /\ ListingId(pure_calls[i].arg) = ListingId(pure_calls[j].arg))
          => pure_calls[i].ret = pure_calls[j].ret

-----------------------------------------------------------------------------
(* Properties of the detail fetches (SpecDetail) *)

\* the first card with canonical link u among the cards parsed so far
CardOf(u) ==
    LET cs == _dedupe_unique(all_cards)
    IN  cs[CHOOSE k \in 1..Len(cs) : normalize_listing_link(cs[k].link) = u]

FetchesOfPage(p) == {k \in 1..Len(fetched) : fetched[k] = PageFetch(p)}

\* the most recent fetch was the first one of a page after page 1, and came
\* back 200 with no card and a markup that is_blocked_page takes for blocked
FirstFetchLooksBlocked ==
    /\ last.fetch.kind = "page"
    /\ last.fetch.page > 1
    /\ Cardinality(FetchesOfPage(last.fetch.page)) = 1
    /\ last.status = 200
    /\ last.html.cards = <<>>
    /\ is_blocked_page(last.html)

\* C28: for a page after page 1 that comes back 200 with no parsed card and
\* is classified blocked, the session is restarted once on the driver-based
\* path and not at all on the Playwright path, the run waits 60 seconds
\* whether or not the restart succeeded, and the same page is passed to
\* fetch_html_with_retry exactly one more time; no search page is passed to
\* it more than twice in a run.
C28_RestartWaitRetryOnce ==
    /\ [](/\ FirstFetchLooksBlocked <=> pc = "page_retry"
          /\ \A p \in 1..IDEALISTA_MAX_PAGE : Cardinality(FetchesOfPage(p)) <= 2
          /\ FetchesOfPage(1) \subseteq {1}
          /\ \A i \in 1..Len(slept) : slept[i] = 60
          /\ Len(restarts) = IF backend = "driver" THEN Len(slept) ELSE 0
          /\ \A j \in 1..Len(restarts) :
                LET k == restarts[j].next_fetch
                IN  /\ k <= Len(fetched)
                    /\ fetched[k].kind = "page"
                    /\ fetched[k - 1] = fetched[k]
                    /\ \A i \in 1..(j - 1) : restarts[i].next_fetch < k)
    /\ [][pc = "page_retry"
          => /\ fetched' = Append(fetched, PageFetch(page_num))
             /\ slept' = Append(slept, 60)
             /\ pc' # "page_retry"
             /\ Len(restarts') = Len(restarts) + (IF backend = "driver" THEN 1 ELSE 0)]_vars

\* a restart that created no session was followed by the wait and by the
\* second fetch of page 2, and the run went on to page 3
C28_Witness ==
    /\ backend = "driver"
    /\ restarts # <<>>
    /\ ~restarts[1].created
    /\ slept = <<60>>
    /\ Cardinality(FetchesOfPage(2)) = 2
    /\ Cardinality(FetchesOfPage(3)) = 1

-----------------------------------------------------------------------------
(* Properties of the status a fetch returns (SpecStatus) *)

\* the status the navigation produced, 0 when there is none to report
StatusProduced(nav) == IF nav.none THEN 0 ELSE nav.status

\* C29: every fetch, on the Playwright path and on the driver-based path,
\* returns the status code that its navigation produced, and 0 when there is
\* none to report.
C29_StatusReturned ==
    \A i \in 1..Len(pure_calls) :
        pure_calls[i].fn \in {"fetch_html_with_page", "_do_fetch"}
            => pure_calls[i].ret = StatusProduced(pure_calls[i].arg)

\* the same, of the fetches through a Playwright page only
C29_OnPlaywrightPage ==
    \A i \in 1..Len(pure_calls) :
        pure_calls[i].fn = "fetch_html_with_page"
            => pure_calls[i].ret = StatusProduced(pure_calls[i].arg)

-----------------------------------------------------------------------------
(* Properties of the caller's set of seen links (Spec) *)

\* C30: no step of a run, up to its return or to the exception that ends
\* it, changes the set of seen links the caller supplied: after the run the
\* set holds exactly the elements it held before.
C30_SeenLinksUnchanged == [][already_seen' = already_seen]_vars

\* a run given seen links has ended, by return or by exception, after a
\* page showed a seen listing and the run emitted records of other listings
C30_Witness ==
    /\ already_seen # {}
    /\ pc = "done"
    /\ emitted # <<>>
    /\ \E i \in 1..Len(all_cards) :
          normalize_listing_link(all_cards[i].link) \in already_seen

\* the same with a run that an exception ended
C30_WitnessRaised ==
    /\ already_seen # {}
    /\ exc # "none"
    /\ emitted # <<>>

-----------------------------------------------------------------------------
(* Properties of the counter of blocked pages (SpecPages) *)

\* the loop steps k+1.. are all of class "blocked"
BlockedFrom(k) ==
    \A i \in (k + 1)..Len(page_log) : page_log[i].class = "blocked"

\* how many of the most recently attempted pages were, without another page
\* between them and the present, still blocked after their retry
TrailingBlocked ==
    LET k == CHOOSE j \in 0..Len(page_log) :
                 BlockedFrom(j) /\ \A h \in 0..(j - 1) : ~BlockedFrom(h)
    IN  Len(page_log) - k

\* pagination has been stopped by the counter of blocked pages
StoppedForBlocking ==
    /\ pc = "done"
    /\ page_log # <<>>
    /\ page_log[Len(page_log)].class = "blocked"
    /\ page_num = page_log[Len(page_log)].page
    /\ page_num < total_pages

\* C31: the counter of consecutive blocked pages is the number of the
\* immediately preceding pages that were blocked after their retry: a
\* failed page, a page with cards and a 200 page without cards that is not
\* classified blocked each reset it to 0, so pagination is stopped for
\* blocking only when the two most recently attempted pages were both
\* blocked after their retry.
C31_CounterCountsTrailingBlocks ==
    /\ consecutive_blocked = TrailingBlocked
    /\ StoppedForBlocking
       => /\ Len(page_log) >= 2
          /\ page_log[Len(page_log) - 1].class = "blocked"

\* the same when the pages without cards that are not classified blocked are
\* left out of the sequence of attempted pages
NotEmpty == SelectSeq(page_log, LAMBDA e : e.class # "empty")
C31_ApartFromEmptyPages ==
    LET n == Len(NotEmpty)
        k == CHOOSE j \in 0..n :
                 /\ \A i \in (j + 1)..n : NotEmpty[i].class = "blocked"
                 /\ \A h \in 0..(j - 1) :
                       \E i \in (h + 1)..n : NotEmpty[i].class # "blocked"
    IN  /\ consecutive_blocked = n - k
        /\ StoppedForBlocking
           => /\ n >= 2
              /\ NotEmpty[n - 1].class = "blocked"

-----------------------------------------------------------------------------
(* Properties of the cards of page 1 in a resumed run (Spec) *)

\* the run has returned its result list
RunReturned == pc = "done" /\ exc = "none"

\* every card parsed so far (the cards of page 1 come first in all_cards)
\* whose canonical link is not in already_seen has been emitted
UnseenCardsEmitted ==
    \A i \in 1..Len(all_cards) :
        LET canonical == normalize_listing_link(all_cards[i].link)
        IN  (canonical # <<>> /\ canonical \notin already_seen)
            => \E k \in 1..Len(emitted) : emitted[k].link = canonical

\* no page after page 1 has added cards: all_cards is what page 1 showed
OnlyPageOneCards ==
    \A i \in 1..Len(page_log) : page_log[i].class # "cards"

\* C32: with fetch_details, when the run returns, every card parsed from
\* page 1 whose canonical link is not in already_seen has been emitted, also
\* when the run resumed from a later start page and every later page failed,
\* was blocked or was a copy of page 1.
C32_PageOneCardsEmitted ==
    (fetch_details /\ RunReturned /\ OnlyPageOneCards) => UnseenCardsEmitted

\* the same for the runs that do not resume from a later page, and for the
\* cards of all pages
C32_WithoutResume ==
    (fetch_details /\ RunReturned /\ start_page <= 1) => UnseenCardsEmitted

-----------------------------------------------------------------------------
(* Properties of the session handle of fetch_kwargs (SpecSession) *)

\* this step calls fetch_html_with_retry
Fetches == Len(used') = Len(used) + 1

\* C33: no fetch is made on a session that has been quit: while the run is
\* going on, and after every restart, also one that created no session, the
\* session of fetch_kwargs is one that has not been quit, and every fetch is
\* given a session that is live when the fetch is made.
C33_FetchOnLiveSession ==
    /\ []((run_pc = "running" /\ pc # "done" /\ fk_driver # 0)
            => ~sessions[fk_driver].quit)
    /\ [][(Fetches /\ used'[Len(used')] # 0)
            => ~sessions'[used'[Len(used')]].quit]_vars

\* the same for the runs in which every restart created its session
AllRestartsCreated == \A j \in 1..Len(restarts) : restarts[j].created
C33_WhenRestartsSucceed ==
    /\ []((AllRestartsCreated /\ run_pc = "running" /\ pc # "done" /\ fk_driver # 0)
            => ~sessions[fk_driver].quit)
    /\ [][(AllRestartsCreated' /\ Fetches /\ used'[Len(used')] # 0)
            => ~sessions'[used'[Len(used')]].quit]_vars

-----------------------------------------------------------------------------
(* Properties of a run whose on_record raises (SpecSession) *)

\* every session that the run created itself has been quit
OwnSessionsQuit ==
    \A i \in 1..Len(sessions) : ~sessions[i].attached => sessions[i].quit

\* the parts of C34 that come before the finally clause
OnRecordErrorStops ==
    /\ [](exc = "OnRecordError"
            => /\ pc = "raised"
               /\ emitted # <<>>
               /\ \A i \in 1..Len(results) : results[i] # emitted[Len(emitted)])
    /\ [][exc = "OnRecordError"
            => /\ fetched' = fetched
               /\ emitted' = emitted
               /\ results' = results
               /\ exc' = exc
               /\ pc' = pc]_vars

\* C34: when on_record raises for a record, the error leaves the run, no
\* page and no detail is fetched and no record is emitted after it, the
\* record that failed is not in the result list, and when run() has ended
\* the sessions it created have been quit.
C34_OnRecordErrorEndsRun ==
    /\ OnRecordErrorStops
    /\ []((exc = "OnRecordError" /\ run_pc = "ended") => OwnSessionsQuit)

\* the same for the runs that did not attach to a running Chrome
C34_UnattachedRuns ==
    /\ OnRecordErrorStops
    /\ []((exc = "OnRecordError" /\ run_pc = "ended" /\ ~attached)
            => OwnSessionsQuit)

-----------------------------------------------------------------------------
(* Properties of the construction of a driver-based session (SpecConstruct) *)

\* the message reports the version of the browser: the phrase "Current
\* browser version is", in any case, followed by a number
ReportsMismatch(msg) ==
    \E i \in 1..(Len(msg) - 1) :
        /\ msg[i] \in {"Current browser version is ", "current browser version is "}
        /\ msg[i + 1] \in Digits

\* the number that follows the phrase, read from the message itself
ReportedVersion(msg) ==
    IF Contains(msg, <<"1", "2", "0">>) THEN 120 ELSE 131

\* C35: for the undetected approach, a construction failure that reports a
\* version mismatch is retried exactly once, pinned to the reported version;
\* when that retry fails, when the failure is of another kind and when the
\* package is missing, the standard Selenium driver is made next and the
\* approach becomes "selenium": the failure of undetected_chromedriver is
\* never what ends the construction.
C35_UndetectedFallsBack ==
    \A i \in 1..Len(pure_calls) :
        LET sc == pure_calls[i].arg
            r == pure_calls[i].ret
            ucs == SelectSeq(r.calls, LAMBDA c : c.ctor = "uc.Chrome")
            std == SelectSeq(r.calls, LAMBDA c : c.ctor = "webdriver.Chrome")
        IN  sc.approach = "undetected"
            => /\ Len(ucs) <= 2
               /\ r.calls = ucs \o std
               /\ ~sc.installed => (ucs = <<>> /\ Len(std) = 1)
               /\ (sc.installed /\ ~sc.first.raised)
                     => (r.calls = <<UcChrome(NoNumber)>> /\ r.driver = "undetected")
               /\ (sc.installed /\ sc.first.raised /\ ReportsMismatch(sc.first.msg))
                     => /\ ucs = <<UcChrome(NoNumber),
                                   UcChrome(ReportedVersion(sc.first.msg))>>
                        /\ IF sc.retry_ok
                           THEN std = <<>> /\ r.driver = "undetected"
                           ELSE Len(std) = 1
               /\ (sc.installed /\ sc.first.raised /\ ~ReportsMismatch(sc.first.msg))
                     => (ucs = <<UcChrome(NoNumber)>> /\ Len(std) = 1)
               /\ Len(std) = 1
                     => /\ r.approach = "selenium"
                        /\ r.raised = ~sc.std_ok
                        /\ sc.std_ok => r.driver = "selenium"
               /\ std = <<>> => (~r.raised /\ r.approach = "undetected")

\* a run retried the construction pinned to version 120, the retry failed
\* and the standard driver was made; a fetch without a driver fell back
\* after a failure that reports no version
C35_Witness ==
    \E i, j \in 1..Len(pure_calls) :
        /\ pure_calls[i].fn = "run"
        /\ pure_calls[i].ret.calls = <<UcChrome(NoNumber), UcChrome(120), WebdriverChrome>>
        /\ pure_calls[i].ret.driver = "selenium"
        /\ pure_calls[j].fn = "_fetch_html_selenium_sync"
        /\ pure_calls[j].arg.first.raised
        /\ pure_calls[j].ret.calls = <<UcChrome(NoNumber), WebdriverChrome>>

-----------------------------------------------------------------------------
(* Properties of the scroll (SpecScroll) *)

ScrollCalls ==
    {i \in 1..Len(pure_calls) :
        pure_calls[i].fn \in {"_human_scroll_playwright", "_human_scroll"}}

\* C36: a scroll moves the viewport down in at least 2 and at most 4 steps,
\* whatever the height of the page.
C36_TwoToFourSteps ==
    \A i \in ScrollCalls :
        /\ Len(pure_calls[i].ret) >= 2
        /\ Len(pure_calls[i].ret) <= 4

\* what does hold of the steps: they go down, the last one is the bottom of
\* the page, none is shorter than 400 but the last, and there are at most 5
C36_StepsGoDown ==
    \A i \in ScrollCalls :
        LET total == pure_calls[i].arg[1]
            ps == pure_calls[i].ret
        IN  /\ Len(ps) <= 5
            /\ total = 0 <=> ps = <<>>
            /\ ps # <<>> => ps[Len(ps)] = total
            /\ \A k \in 1..(Len(ps) - 1) : ps[k + 1] > ps[k]
            /\ \A k \in 1..(Len(ps) - 2) : ps[k + 1] - ps[k] >= 400
            /\ total >= 1600 => Len(ps) >= 2

-----------------------------------------------------------------------------
(* Properties of fetch_kwargs (SpecSession) *)

\* the session that fetch_kwargs holds when fetch number k is made: the one
\* run() made, or the one of the last restart before k that created one
HandleAt(k) ==
    LET js == {j \in 1..Len(restarts) :
                  restarts[j].created /\ restarts[j].next_fetch <= k}
    IN  IF js = {} THEN 1
        ELSE restarts[CHOOSE j \in js : \A i \in js : i <= j].new

\* C37: no fetch changes the fetch_kwargs of the run: every fetch is given
\* the session that the mapping was made with, or the one that the last
\* restart stored in it, and the session entry changes only in a restart.
C37_KwargsKept ==
    /\ [](\A k \in 1..Len(used) : used[k] = HandleAt(k))
    /\ [][fk_driver' # fk_driver
            => /\ Len(restarts') = Len(restarts) + 1
               /\ restarts'[Len(restarts')].created
               /\ fk_driver' = restarts'[Len(restarts')].new]_vars

\* three fetches were given the first session, a restart stored a new one,
\* and two more fetches were given that one
C37_Witness ==
    /\ Len(restarts) = 1
    /\ restarts[1].created
    /\ restarts[1].next_fetch = 4
    /\ Len(used) >= 5
    /\ used[3] = 1
    /\ used[5] = restarts[1].new

-----------------------------------------------------------------------------
(* Properties of the driver of one fetch (SpecOwn) *)

\* C38: a fetch called without a driver uses a session of its own and has
\* called quit on it when the fetch ends, by return or by exception, unless
\* the session is attached to the Chrome at CHROME_CDP_URL, which is never
\* quit; a fetch given the caller's driver never quits it.
C38_OwnSessionQuit ==
    \A i \in 1..Len(pure_calls) :
        LET c == pure_calls[i].arg
            r == pure_calls[i].ret
        IN  /\ c.driver_given => (r.session = "caller" /\ ~r.quit)
            /\ (~c.driver_given /\ c.made = "new") => (r.session = "own" /\ r.quit)
            /\ (~c.driver_given /\ c.made = "attached")
                  => (r.session = "attached" /\ ~r.quit)
            /\ r.raised <=> c.raises_at # "none"

\* a fetch without a driver raised while reading the page source and quit
\* its session, with quit raising; a fetch with the caller's driver raised
\* and left the driver alone
C38_Witness ==
    \E i, j \in 1..Len(pure_calls) :
        /\ ~pure_calls[i].arg.driver_given
        /\ pure_calls[i].arg.raises_at = "page_source"
        /\ pure_calls[i].arg.quit_raises
        /\ pure_calls[i].ret.quit
        /\ pure_calls[j].arg.driver_given
        /\ pure_calls[j].ret.raised
        /\ ~pure_calls[j].ret.quit

-----------------------------------------------------------------------------
(* Properties of the end of a run (SpecLive) *)

\* the loop steps are those of pages 2..total_pages, each page at most once
EachPageOnce ==
    /\ \A i \in 1..Len(page_log) :
          page_log[i].page >= 2 /\ page_log[i].page <= total_pages
    /\ \A i, j \in 1..Len(page_log) :
          page_log[i].page = page_log[j].page => i = j

\* at most two calls of fetch_html_with_retry per page after page 1, one for
\* page 1, and one per canonical link for the detail pages
FetchesBounded ==
    /\ \A p \in 2..IDEALISTA_MAX_PAGE : Cardinality(FetchesOfPage(p)) <= 2
    /\ Cardinality(FetchesOfPage(1)) <= 1
    /\ \A i, j \in 1..Len(fetched) :
          (fetched[i].kind = "detail" /\ fetched[j].kind = "detail"
             /\ normalize_listing_link(fetched[i].url)
                  = normalize_listing_link(fetched[j].url))
          => i = j

\* the run has ended with one of the given exceptions
EndedWith(errors) ==
    \/ pc = "done" /\ exc = "none"
    \/ pc = "raised" /\ exc \in errors

\* C39 as stated: every run ends, by returning its result list or by raising
\* the error of page 1, after visiting each page of 2..total_pages at most
\* once, with at most two calls of the retry policy per visit and at most
\* one detail fetch per canonical link.
C39_ReturnsOrPageOneError ==
    /\ <>EndedWith({"RuntimeError"})
    /\ [](pc \in {"done", "raised"} => EndedWith({"RuntimeError"}))
    /\ [](EachPageOnce /\ FetchesBounded)

\* C39, amended: every run ends, by returning its result list, by raising
\* the error of page 1 or by raising the error of on_record, after visiting
\* each page of 2..total_pages at most once, with at most two calls of the
\* retry policy per visit and at most one detail fetch per canonical link.
C39_RunTerminates ==
    /\ <>EndedWith({"RuntimeError", "OnRecordError"})
    /\ [](pc \in {"done", "raised"} => EndedWith({"RuntimeError", "OnRecordError"}))
    /\ [](EachPageOnce /\ FetchesBounded)

\* a run has returned after a page that was fetched twice, a page that was
\* skipped for the resume and a detail fetch
C39_Witness ==
    /\ pc = "done"
    /\ exc = "none"
    /\ \E p \in 2..MaxSessionPages : Cardinality(FetchesOfPage(p)) = 2
    /\ \E k \in 1..Len(fetched) : fetched[k].kind = "detail"
    /\ start_page >= 3

=============================================================================
